---------------------------- MODULE Spec2Model ----------------------------
(***************************************************************************)
(* Model of the tiling / stitching engine of image-dataset-converter-imgaug *)
(*                                                                         *)
(*   tool/generate_regions.py      generate, regions_to_string             *)
(*   filter/_sub_images_utils.py   process_image, fit_located_object,      *)
(*                                 new_from_template, transfer_region,     *)
(*                                 prune_annotations, merge_polygons       *)
(*   filter/_meta_sub_images.py    MetaSubImages._do_process               *)
(*                                                                         *)
(* Geometry: a LocatedObject (x, y, width, height) becomes the closed      *)
(* rectangle [x, x+width-1] x [y, y+height-1] when handed to the planar    *)
(* geometry library (bbox_to_shapely); every object of the model carries a *)
(* rectangular polygon that coincides with that rectangle.                 *)
(***************************************************************************)
EXTENDS Integers, Sequences, FiniteSets, TLC

VARIABLES
    params,     \* generate(): the arguments of the call
    regions,    \* generate(): the returned list of Region(x, y, w, h)
    gen_pc      \* generate(): "call" before, "generated" / "error" after

VARIABLES
    item,          \* MetaSubImages: the record being processed
    meta_cfg,      \* MetaSubImages: the filter's options
    meta_pc,       \* MetaSubImages._do_process: position in the method
    sub_items,     \* the list returned by the extractor
    sub_idx,       \* position of the loop over sub_items
    new_sub_item,  \* what the base filter returned for the current tile
    new_item,      \* the full record being reassembled
    result,        \* the records _do_process returns
    filter_calls,  \* history: positions handed to the base filter, in order
    list_tiles,    \* history: positions for which the base filter returned a list
    transfers      \* history: the transfer_region calls (position, region, sub, appended)

VARIABLES
    merge_input,   \* merge_polygons: the object list of the record handed in
    merged_once,   \* the object list after one run
    merged_twice,  \* the object list after a run on the output of the first
    merge_pc       \* "call", "once", "twice"

VARIABLES
    pairs,         \* reassembly: the (region, orig_dims, layer, objects) of the tiles
    seg_full,      \* the layer of the segmentation full record
    det_full,      \* the detection full record
    cls_full,      \* the classification full record
    call_order     \* positions of pairs in the order of the transfer_region calls

VARIABLES
    ex_item,       \* process_image: the record handed in
    ex_regions,    \* process_image: regions_lobj
    ex_cfg,        \* process_image: suppress_empty, include_partial
    ex_subs,       \* process_image: the returned list
    ex_pc,         \* "call", "done"
    ex_tiles,      \* SubImages._do_process: the returned list
    sub_pc         \* "call", "done", "error"

VARIABLES
    tile_in,       \* process_image: the image, one region and the pad size
    tile_out,      \* process_image: orig_dims and the image of the tile
    tile_pc        \* "call", "done"

VARIABLES
    mix_full,      \* transfer_region: a full record of one kind
    mix_sub,       \* transfer_region: a sub-record of another kind
    mix_out,       \* whether the call raised, and the full record's annotation after it
    mix_pc         \* "call", "done"

VARIABLES
    pr_in,         \* prune_annotations: the record before the call
    pr_out,        \* prune_annotations: the record after the call
    pr_pc          \* "call", "done"

genVars == <<params, regions, gen_pc>>

mergeVars == <<merge_input, merged_once, merged_twice, merge_pc>>

xferVars == <<pairs, seg_full, det_full, cls_full, call_order>>

exVars == <<ex_item, ex_regions, ex_cfg, ex_subs, ex_pc, ex_tiles, sub_pc>>

pruneVars == <<pr_in, pr_out, pr_pc>>

tileVars == <<tile_in, tile_out, tile_pc>>

mixVars == <<mix_full, mix_sub, mix_out, mix_pc>>

metaVars == <<item, meta_cfg, meta_pc, sub_items, sub_idx, new_sub_item, new_item,
              result, filter_calls, list_tiles, transfers>>

vars == <<genVars, metaVars, mergeVars, xferVars, exVars, pruneVars, tileVars, mixVars>>

----------------------------------------------------------------------------
(* Bounds of the region generator's inputs *)

MaxDim == 3
MaxCells == 3
MaxOverlap == 1
MaxMargin == 1

(* Bound of the object-detection records: objects per record *)
MaxObjs == 2

\* Python's None for an optional integer argument
NoneVal == -1

Min(a, b) == IF a < b THEN a ELSE b
Max(a, b) == IF a > b THEN a ELSE b

----------------------------------------------------------------------------
(* tool/generate_regions.py *)

Region(x, y, w, h) == [x |-> x, y |-> y, w |-> w, h |-> h]

\* margins: a uniform margin > 0 fills in every per-side margin left at 0
EffMargin(margin, side) == IF margin > 0 /\ side = 0 THEN margin ELSE side

margin_left(p) == EffMargin(p.margin, p.margin_left)
margin_top(p) == EffMargin(p.margin, p.margin_top)
margin_right(p) == EffMargin(p.margin, p.margin_right)
margin_bottom(p) == EffMargin(p.margin, p.margin_bottom)

section_width(p) == p.width - margin_left(p) - margin_right(p)
section_height(p) == p.height - margin_top(p) - margin_bottom(p)

\* mode = "grid" / "size" / None; row_height+col_width win over num_rows+num_cols
GenMode(p) ==
    IF p.row_height # NoneVal /\ p.col_width # NoneVal THEN "size"
    ELSE IF p.num_rows # NoneVal /\ p.num_cols # NoneVal THEN "grid"
    ELSE "none"

\* grid mode: start of row/column i:  i * section // n + margin
GridStart(i, section, n, margin) == ((i * section) \div n) + margin

\* an extent whose last row/column takes the remaining pixels also with
\* fixed_size; not what the code computes
GridSizeGrow(i, section, n, start, fixed, overlap) ==
    (IF i = n - 1 THEN section - start ELSE section \div n)
    + (IF i < n - 1 THEN overlap ELSE 0)

\* grid mode: extent of row/column i that starts at 'start'
GridSize(i, section, n, start, fixed, overlap) ==
    (IF (i = n - 1) /\ ~fixed THEN section - start ELSE section \div n)
    + (IF i < n - 1 THEN overlap ELSE 0)

GenerateGrid(p) ==
    LET nr == p.num_rows
        nc == p.num_cols
        cell(row, col) ==
            LET y == GridStart(row, section_height(p), nr, margin_top(p))
                h == GridSize(row, section_height(p), nr, y, p.fixed_size, p.overlap_bottom)
                x == GridStart(col, section_width(p), nc, margin_left(p))
                w == GridSize(col, section_width(p), nc, x, p.fixed_size, p.overlap_right)
            IN Region(x, y, w, h)
    IN [k \in 1..(nr * nc) |-> cell((k - 1) \div nc, (k - 1) % nc)]

\* size mode: extent of a tile starting at 'start'
SizeExtent(start, nominal, overlap, limit, partial) ==
    LET e == nominal + overlap
    IN IF start + e - 1 > limit
       THEN (IF partial THEN limit - start ELSE 0)
       ELSE e

\* size mode: the inner "while True" loop over x of one row
RECURSIVE SizeRow(_, _, _, _)
SizeRow(p, x, y, h) ==
    LET w == SizeExtent(x, p.col_width, p.overlap_right, p.width, p.partial)
        here == IF (w > 0) /\ (h > 0) THEN <<Region(x, y, w, h)>> ELSE <<>>
        nx == x + p.col_width
    IN IF nx > p.width - 1 THEN here ELSE here \o SizeRow(p, nx, y, h)

\* size mode: the outer "while True" loop over y
RECURSIVE SizeRows(_, _)
SizeRows(p, y) ==
    LET h == SizeExtent(y, p.row_height, p.overlap_bottom, p.height, p.partial)
        row == SizeRow(p, margin_left(p), y, h)
        ny == y + p.row_height
    IN IF ny > p.height - 1 THEN row ELSE row \o SizeRows(p, ny)

GenerateSize(p) == SizeRows(p, margin_top(p))

GenerateFails(p) == p.width < 1 \/ p.height < 1 \/ GenMode(p) = "none"

generate(p) == IF GenMode(p) = "grid" THEN GenerateGrid(p) ELSE GenerateSize(p)

----------------------------------------------------------------------------
(* Region strings: regions_to_string, str.split(" "), parse_regions *)

\* The string is kept as the list of its " "-separated tokens, a token as
\* the list of its ","-separated integers: " %d,%d,%d,%d" per region.
regions_to_string(rs) == [k \in DOMAIN rs |-> <<rs[k].x, rs[k].y, rs[k].w, rs[k].h>>]

\* "".split(" ") is [""]: one token that holds no integer
StrSplit(str) == IF Len(str) = 0 THEN << <<>> >> ELSE str

\* int("") raises ValueError
ParseFails(tokens) == \E k \in DOMAIN tokens : Len(tokens[k]) = 0

LocatedObject(x, y, width, height) == [x |-> x, y |-> y, width |-> width, height |-> height]

\* region sorting "none": a token of 4 integers becomes one region object
parse_regions(tokens) ==
    [k \in DOMAIN tokens |->
        LocatedObject(tokens[k][1], tokens[k][2], tokens[k][3], tokens[k][4])]

regions_xyxy(lobjs) ==
    [k \in DOMAIN lobjs |->
        <<lobjs[k].x, lobjs[k].y,
          lobjs[k].x + lobjs[k].width - 1, lobjs[k].y + lobjs[k].height - 1>>]

----------------------------------------------------------------------------
(* Planar geometry.  A geometry is <<minx, miny, maxx, maxy>>, the closed    *)
(* rectangle [minx, maxx] x [miny, maxy], or <<minx, miny, maxx, maxy, c>>,  *)
(* the part of that rectangle with x + y <= c (a rectangle with its far      *)
(* corner cut off; a right triangle when c = maxx + miny = minx + maxy).     *)

\* the rectangle with its far corner at (x+w, y+h); not what the code builds
bbox_to_shapely_far(o) == <<o.x, o.y, o.x + o.width, o.y + o.height>>

\* bbox -> polygon through (x, y), (x+w-1, y), (x+w-1, y+h-1), (x, y+h-1)
bbox_to_shapely(o) == <<o.x, o.y, o.x + o.width - 1, o.y + o.height - 1>>

has_polygon(o) == o.poly # <<>>

polygon_to_shapely(o) == IF has_polygon(o) THEN o.poly ELSE bbox_to_shapely(o)

Intersection(a, b) ==
    LET r == <<Max(a[1], b[1]), Max(a[2], b[2]), Min(a[3], b[3]), Min(a[4], b[4])>>
    IN IF Len(a) = 5 /\ Len(b) = 5 THEN Append(r, Min(a[5], b[5]))
       ELSE IF Len(a) = 5 THEN Append(r, a[5])
       ELSE IF Len(b) = 5 THEN Append(r, b[5])
       ELSE r

\* geometry.bounds: (minx, miny, maxx, maxy) of the points of the geometry
Bounds(g) ==
    IF Len(g) = 5
    THEN <<g[1], g[2], Min(g[3], g[5] - g[2]), Min(g[4], g[5] - g[1])>>
    ELSE g

\* an intersection with area is a Polygon; a line, a point or the empty
\* geometry is not
IsPolygon(g) == LET b == Bounds(g) IN b[1] < b[3] /\ b[2] < b[4]

\* bounds of the union of two geometries
UnionBounds(a, b) ==
    <<Min(a[1], b[1]), Min(a[2], b[2]), Max(a[3], b[3]), Max(a[4], b[4])>>

Shift(g, dx, dy) ==
    LET r == <<g[1] + dx, g[2] + dy, g[3] + dx, g[4] + dy>>
    IN IF Len(g) = 5 THEN Append(r, g[5] + dx + dy) ELSE r

\* LocatedObject.overlap_ratio(other) = area(self /\ other) / area(other),
\* on pixel rectangles [x, x+w) x [y, y+h); kept as numerator and denominator
OverlapArea(a, b) ==
    Max(0, Min(a.x + a.width, b.x + b.width) - Max(a.x, b.x))
    * Max(0, Min(a.y + a.height, b.y + b.height) - Max(a.y, b.y))

overlap_ratio(self, other) == <<OverlapArea(self, other), other.width * other.height>>

----------------------------------------------------------------------------
(* Annotation objects: a LocatedObject with its metadata                  *)
(*   label         metadata["type"]                                        *)
(*   score         metadata["score"] as <<numerator, denominator>>, <<>>   *)
(*                 when absent                                             *)
(*   region_index  metadata["region_index"], -1 when absent                *)
(*   region_xywh   metadata["region_xywh"], <<>> when absent               *)
(*   poly          the polygon (a rectangle geometry), <<>> when absent    *)

Obj(x, y, width, height, label) ==
    [x |-> x, y |-> y, width |-> width, height |-> height, label |-> label,
     score |-> <<>>, region_index |-> NoneVal, region_xywh |-> <<>>, poly |-> <<>>]

get_object_label(o) == o.label

\* fit_located_object(index, region, annotation, logger)
fit_located_object(index, region, annotation) ==
    LET sregion == bbox_to_shapely(region)
        sbbox == bbox_to_shapely(annotation)
        sintersect == Intersection(sbbox, sregion)
        pintersect == Intersection(polygon_to_shapely(annotation), sregion)
    IN [annotation EXCEPT
          !.x = sintersect[1] - region.x,
          !.y = sintersect[2] - region.y,
          !.width = sintersect[3] - sintersect[1] + 1,
          !.height = sintersect[4] - sintersect[2] + 1,
          !.region_index = IF index > -1 THEN index ELSE @,
          !.region_xywh = IF index > -1
                          THEN <<region.x, region.y, region.width, region.height>>
                          ELSE @,
          !.poly = IF IsPolygon(pintersect)
                   THEN Shift(pintersect, 0 - region.x, 0 - region.y)
                   ELSE @]

----------------------------------------------------------------------------
(* process_image: the tiles of an object-detection record *)

\* any overlap, whatever include_partial says; not what the code tests
ObjectIncludedAnyOverlap(region, ann, include_partial) == overlap_ratio(region, ann)[1] > 0

\* ((ratio > 0) and include_partial) or (ratio >= 1)
ObjectIncluded(region, ann, include_partial) ==
    LET ratio == overlap_ratio(region, ann)
    IN ((ratio[1] > 0) /\ include_partial) \/ (ratio[1] >= ratio[2])

\* new_objects of region number region_index (0-based) of the region list
NewObjects(objects, region_index, region, include_partial) ==
    LET hit == SelectSeq(objects, LAMBDA a : ObjectIncluded(region, a, include_partial))
    IN [k \in DOMAIN hit |-> fit_located_object(region_index, region, hit[k])]

\* size of the crop: the region clamped to the image, never extended
OrigDims(xyxy, image_width, image_height) ==
    LET x1 == IF xyxy[3] >= image_width THEN image_width - 1 ELSE xyxy[3]
        y1 == IF xyxy[4] >= image_height THEN image_height - 1 ELSE xyxy[4]
    IN <<x1 + 1 - xyxy[1], y1 + 1 - xyxy[2]>>

\* one entry (region, item_new, orig_dims) of the result
SubItem(it, lobjs, k, include_partial) ==
    [region |-> lobjs[k],
     index |-> k - 1,
     annotation |-> NewObjects(it.annotation, k - 1, lobjs[k], include_partial),
     orig_dims |-> OrigDims(regions_xyxy(lobjs)[k], it.image_width, it.image_height)]

\* the loop over the regions; an empty tile is left out under suppress_empty
RECURSIVE ProcessFrom(_, _, _, _, _)
ProcessFrom(it, lobjs, k, suppress_empty, include_partial) ==
    IF k > Len(lobjs) THEN <<>>
    ELSE LET sub == SubItem(it, lobjs, k, include_partial)
             rest == ProcessFrom(it, lobjs, k + 1, suppress_empty, include_partial)
         IN IF ~suppress_empty \/ (Len(sub.annotation) > 0)
            THEN <<sub>> \o rest
            ELSE rest

process_image(it, lobjs, suppress_empty, include_partial) ==
    ProcessFrom(it, lobjs, 1, suppress_empty, include_partial)

----------------------------------------------------------------------------
(* new_from_template, transfer_region, prune_annotations (object detection) *)

\* ObjectDetectionData(..., annotation=LocatedObjects()); the field annotated
\* is FALSE when the record's annotation is None
new_from_template(it) ==
    [image_width |-> it.image_width, image_height |-> it.image_height,
     annotation |-> <<>>, annotated |-> TRUE]

\* LocatedObject(lobj.x + region.x, lobj.y + region.y, ...) and its polygon
Relocate(lobj, region) ==
    [lobj EXCEPT !.x = @ + region.x, !.y = @ + region.y,
                 !.poly = IF has_polygon(lobj) THEN Shift(@, region.x, region.y) ELSE @]

NeedsFit(new_lobj, img_width, img_height) ==
    \/ (new_lobj.x < img_width) /\ (new_lobj.x + new_lobj.width >= img_width)
    \/ (new_lobj.y < img_height) /\ (new_lobj.y + new_lobj.height >= img_height)

\* the region in use for the objects after a fitted one: the fit assigns
\* region = LocatedObject(0, 0, img_width, img_height) inside the loop
RegionAfterFit(region, img_width, img_height) ==
    LocatedObject(0, 0, img_width, img_height)

\* the loop "for lobj in sub_image.annotation" from position k on, with the
\* current value of the local variable region; returns the appended objects
RECURSIVE TransferFrom(_, _, _, _, _)
TransferFrom(objs, k, region, img_width, img_height) ==
    IF k > Len(objs) THEN <<>>
    ELSE LET new_lobj == Relocate(objs[k], region)
         IN IF new_lobj.x >= img_width \/ new_lobj.y >= img_height
            THEN TransferFrom(objs, k + 1, region, img_width, img_height)
            ELSE IF NeedsFit(new_lobj, img_width, img_height)
            THEN LET full == LocatedObject(0, 0, img_width, img_height)
                 IN <<fit_located_object(-1, full, new_lobj)>>
                    \o TransferFrom(objs, k + 1,
                                    RegionAfterFit(region, img_width, img_height),
                                    img_width, img_height)
            ELSE <<new_lobj>> \o TransferFrom(objs, k + 1, region, img_width, img_height)

\* transfer_region(full_image, sub_image, region, ...) on detection records
transfer_region(full_image, sub_annotation, region) ==
    [full_image EXCEPT
        !.annotation = @ \o TransferFrom(sub_annotation, 1, region,
                                         full_image.image_width, full_image.image_height)]

\* prune_annotations raises: len(image.annotation) of an annotation that is None
PruneFails(image) == ~image.annotated

\* prune_annotations: no object -> annotation = None
prune_annotations(image) ==
    IF Len(image.annotation) = 0
    THEN [image EXCEPT !.annotated = FALSE]
    ELSE image

----------------------------------------------------------------------------
(* merge_polygons *)

\* default of the parameter max_dist (1.0)
MaxDist == 1

\* the list s in increasing order (iteration order of a set of small ints)
RECURSIVE SortedSeq(_)
SortedSeq(S) ==
    IF S = {} THEN <<>>
    ELSE LET m == CHOOSE a \in S : \A b \in S : a <= b
         IN <<m>> \o SortedSeq(S \ {m})

\* xs / ys of the closed polygon of an object (its polygon, else its bbox)
PolyXs(o) == LET g == polygon_to_shapely(o) IN <<g[1], g[3], g[3], g[1]>>
PolyYs(o) == LET g == polygon_to_shapely(o) IN <<g[2], g[2], g[4], g[4]>>

\* vertices[i][n]: the edge from point n-1 (the last one for the first) to n
Edge(o, n) ==
    LET xs == PolyXs(o)
        ys == PolyYs(o)
        m == IF n = 1 THEN Len(xs) ELSE n - 1
    IN [x0 |-> xs[m], y0 |-> ys[m], x1 |-> xs[n], y1 |-> ys[n]]

Edges(o) == {Edge(o, n) : n \in 1..4}

\* slope as <<dy, dx>>; dx = 0 is math.inf
Slope(e) == <<e.y1 - e.y0, e.x1 - e.x0>>

\* both horizontal, both vertical, or slope difference within max_slope_diff
\* (1e-6: for integer coordinates of this size, equal slopes)
IsParallel(s1, s2) ==
    \/ (s1[2] # 0 /\ s1[1] = 0) /\ (s2[2] # 0 /\ s2[1] = 0)
    \/ (s1[2] = 0) /\ (s2[2] = 0)
    \/ (s1[2] # 0) /\ (s2[2] # 0) /\ (s1[1] * s2[2] = s2[1] * s1[2])

\* squared distance of two axis-parallel edges
EdgeDist2(e1, e2) ==
    LET gx == Max(0, Max(Min(e1.x0, e1.x1), Min(e2.x0, e2.x1))
                     - Min(Max(e1.x0, e1.x1), Max(e2.x0, e2.x1)))
        gy == Max(0, Max(Min(e1.y0, e1.y1), Min(e2.y0, e2.y1))
                     - Min(Max(e1.y0, e1.y1), Max(e2.y0, e2.y1)))
    IN gx * gx + gy * gy

\* objects i < n of the same label with two parallel edges within max_dist
\* a candidate test that does not compare the labels; not what the code does
IsCandidateAnyLabel(oi, on) ==
    \E e1 \in Edges(oi), e2 \in Edges(on) :
        /\ IsParallel(Slope(e1), Slope(e2))
        /\ EdgeDist2(e1, e2) <= MaxDist * MaxDist

IsCandidate(oi, on) ==
    /\ get_object_label(oi) = get_object_label(on)
    /\ \E e1 \in Edges(oi), e2 \in Edges(on) :
          /\ IsParallel(Slope(e1), Slope(e2))
          /\ EdgeDist2(e1, e2) <= MaxDist * MaxDist

\* parallel[i]: the set of n > i that are candidates of i
Parallel(objs, i) == {n \in (i + 1)..Len(objs) : IsCandidate(objs[i], objs[n])}

ParallelKeys(objs) == {i \in DOMAIN objs : Parallel(objs, i) # {}}

\* to_merge after one entry (i, ns) of parallel: the scan of all_ adds each
\* element up to and including the first one found in a merge set
ToMergeStep(st, all_) ==
    LET hits == {j \in DOMAIN all_ : \E n \in DOMAIN st.merge_sets : all_[j] \in st.merge_sets[n]}
        j0 == IF hits = {} THEN Len(all_) ELSE CHOOSE j \in hits : \A k \in hits : j <= k
    IN st.to_merge \cup {all_[j] : j \in 1..j0}

\* merge_sets after one entry (i, ns) of parallel: all_ joins the merge set
\* of its first element that is in one, else it becomes a new merge set
MergeSetsStep(st, all_) ==
    LET hits == {j \in DOMAIN all_ : \E n \in DOMAIN st.merge_sets : all_[j] \in st.merge_sets[n]}
        elems == {all_[j] : j \in DOMAIN all_}
    IN IF hits = {} THEN Append(st.merge_sets, elems)
       ELSE LET j0 == CHOOSE j \in hits : \A k \in hits : j <= k
                found == CHOOSE n \in DOMAIN st.merge_sets :
                            /\ all_[j0] \in st.merge_sets[n]
                            /\ \A m \in DOMAIN st.merge_sets :
                                  all_[j0] \in st.merge_sets[m] => n <= m
            IN [st.merge_sets EXCEPT ![found] = @ \cup elems]

\* the loop "for i, ns in parallel.items()" over keys[k..]
RECURSIVE BuildMergeSets(_, _, _, _)
BuildMergeSets(objs, keys, k, st) ==
    IF k > Len(keys) THEN st
    ELSE LET all_ == <<keys[k]>> \o SortedSeq(Parallel(objs, keys[k]))
         IN BuildMergeSets(objs, keys, k + 1,
                           [merge_sets |-> MergeSetsStep(st, all_),
                            to_merge |-> ToMergeStep(st, all_)])

MergeState(objs) ==
    BuildMergeSets(objs, SortedSeq(ParallelKeys(objs)), 1,
                   [merge_sets |-> <<>>, to_merge |-> {}])

\* fractions <<numerator, denominator>> for the score arithmetic
RECURSIVE GCD(_, _)
GCD(a, b) == IF b = 0 THEN a ELSE GCD(b, a % b)

Frac(n, d) == LET g == GCD(n, d) IN IF g = 0 THEN <<0, 1>> ELSE <<n \div g, d \div g>>

RECURSIVE FracSum(_)
FracSum(fs) ==
    IF Len(fs) = 0 THEN <<0, 1>>
    ELSE LET r == FracSum(Tail(fs))
         IN Frac(fs[1][1] * r[2] + r[1] * fs[1][2], fs[1][2] * r[2])

\* statistics.mean(scores)
Mean(fs) == LET t == FracSum(fs) IN Frac(t[1], t[2] * Len(fs))

\* bounds of shapely.union over the members, in iteration order
RECURSIVE UnionOf(_, _)
UnionOf(objs, members) ==
    IF Len(members) = 1 THEN polygon_to_shapely(objs[members[1]])
    ELSE LET n == Len(members)
         IN UnionBounds(UnionOf(objs, SubSeq(members, 1, n - 1)),
                        polygon_to_shapely(objs[members[n]]))

\* shapely_to_locatedobject(merged, label=label): bbox from the bounds of the
\* geometry; label and mean score are the only metadata
shapely_to_locatedobject(g, label, scores) ==
    [x |-> g[1], y |-> g[2], width |-> g[3] - g[1] + 1, height |-> g[4] - g[2] + 1,
     label |-> label,
     score |-> IF Len(scores) > 0 THEN Mean(scores) ELSE <<>>,
     region_index |-> NoneVal, region_xywh |-> <<>>, poly |-> g]

\* the mean over all members, a member without score counting as 0; not what
\* the code computes
MergedObjectAllMembers(objs, merge_set) ==
    LET members == SortedSeq(merge_set)
        scores == [k \in DOMAIN members |->
                     IF objs[members[k]].score = <<>> THEN <<0, 1>>
                     ELSE objs[members[k]].score]
    IN shapely_to_locatedobject(UnionOf(objs, members),
                                get_object_label(objs[members[1]]), scores)

\* the object one merge set is turned into
MergedObject(objs, merge_set) ==
    LET members == SortedSeq(merge_set)
        scored == SelectSeq(members, LAMBDA i : objs[i].score # <<>>)
        scores == [k \in DOMAIN scored |-> objs[scored[k]].score]
    IN shapely_to_locatedobject(UnionOf(objs, members),
                                get_object_label(objs[members[1]]), scores)

\* the objects that are transferred as they are: those not in to_merge
Unmerged(objs, to_merge) ==
    LET idx == SelectSeq([i \in DOMAIN objs |-> i], LAMBDA i : i \notin to_merge)
    IN [k \in DOMAIN idx |-> objs[idx[k]]]

\* merge_polygons(combined) on the object list of the record
merge_polygons(objs) ==
    LET st == MergeState(objs)
    IN IF Len(st.merge_sets) > 0
       THEN Unmerged(objs, st.to_merge)
            \o [k \in DOMAIN st.merge_sets |-> MergedObject(objs, st.merge_sets[k])]
       ELSE objs

----------------------------------------------------------------------------
(* Calls of generate() *)

\* the margin arguments: every combination of the four sides without the
\* uniform margin, and a uniform margin with the sides pairwise equal (it
\* stands in for the sides given as 0)
MarginParams ==
    {m \in [margin : 0..MaxMargin,
            margin_left : 0..MaxMargin, margin_top : 0..MaxMargin,
            margin_right : 0..MaxMargin, margin_bottom : 0..MaxMargin] :
        \/ m.margin = 0
        \/ (m.margin_left = m.margin_right /\ m.margin_top = m.margin_bottom)}

\* the other arguments of a call in grid mode and of one in size mode
GridParams ==
    [width : 1..MaxDim, height : 1..MaxDim,
     num_rows : 1..MaxCells, num_cols : 1..MaxCells, fixed_size : BOOLEAN,
     row_height : {NoneVal}, col_width : {NoneVal}, partial : {FALSE},
     overlap_right : 0..MaxOverlap, overlap_bottom : 0..MaxOverlap]

SizeParams ==
    [width : 1..MaxDim, height : 1..MaxDim,
     num_rows : {NoneVal}, num_cols : {NoneVal}, fixed_size : {FALSE},
     row_height : 1..MaxCells, col_width : 1..MaxCells, partial : BOOLEAN,
     overlap_right : 0..MaxOverlap, overlap_bottom : 0..MaxOverlap]

GenIdle == params = <<>> /\ regions = <<>> /\ gen_pc = "idle"

MetaIdle ==
    /\ item = <<>> /\ meta_cfg = <<>> /\ meta_pc = "idle" /\ sub_items = <<>>
    /\ sub_idx = 0 /\ new_sub_item = <<>> /\ new_item = <<>> /\ result = <<>>
    /\ filter_calls = <<>> /\ list_tiles = {} /\ transfers = <<>>

MergeIdle ==
    /\ merge_input = <<>> /\ merged_once = <<>> /\ merged_twice = <<>>
    /\ merge_pc = "idle"

XferIdle ==
    /\ pairs = <<>> /\ seg_full = <<>> /\ det_full = <<>> /\ cls_full = <<>>
    /\ call_order = <<>>

ExIdle ==
    /\ ex_item = <<>> /\ ex_regions = <<>> /\ ex_cfg = <<>> /\ ex_subs = <<>>
    /\ ex_pc = "idle"
    /\ ex_tiles = <<>> /\ sub_pc = "idle"

PruneIdle == pr_in = <<>> /\ pr_out = <<>> /\ pr_pc = "idle"

TileIdle == tile_in = <<>> /\ tile_out = <<>> /\ tile_pc = "idle"

MixIdle == mix_full = <<>> /\ mix_sub = <<>> /\ mix_out = <<>> /\ mix_pc = "idle"

GenInit ==
    /\ \E g \in GridParams \cup SizeParams, m \in MarginParams : params = g @@ m
    /\ regions = <<>>
    /\ gen_pc = "call"
    /\ MetaIdle
    /\ MergeIdle
    /\ XferIdle
    /\ ExIdle
    /\ PruneIdle
    /\ TileIdle
    /\ MixIdle

Generate ==
    /\ gen_pc = "call"
    /\ IF GenerateFails(params)
       THEN /\ gen_pc' = "error"
            /\ regions' = <<>>
       ELSE /\ gen_pc' = "generated"
            /\ regions' = generate(params)
    /\ UNCHANGED <<params, metaVars, mergeVars, xferVars, exVars, pruneVars, tileVars, mixVars>>

GenNext == Generate

SpecGen == GenInit /\ [][GenNext]_vars

----------------------------------------------------------------------------
(* Claims about generate() *)

Covers(r, px, py) == r.x <= px /\ px < r.x + r.w /\ r.y <= py /\ py < r.y + r.h

NoMarginNoOverlap(p) ==
    /\ p.margin = 0 /\ p.margin_left = 0 /\ p.margin_top = 0
    /\ p.margin_right = 0 /\ p.margin_bottom = 0
    /\ p.overlap_right = 0 /\ p.overlap_bottom = 0

GridCoverageCase ==
    /\ gen_pc = "generated"
    /\ GenMode(params) = "grid"
    /\ ~params.fixed_size
    /\ NoMarginNoOverlap(params)

\* C1: grid mode, fixed_size=false, no margins, no overlap: every pixel of
\* [0,W) x [0,H) lies in exactly one returned region and no region leaves
\* the image.
C1_GridCoverage ==
    GridCoverageCase =>
        /\ \A px \in 0..(params.width - 1), py \in 0..(params.height - 1) :
              Cardinality({k \in DOMAIN regions : Covers(regions[k], px, py)}) = 1
        /\ \A k \in DOMAIN regions :
              /\ regions[k].x >= 0 /\ regions[k].y >= 0
              /\ regions[k].x + regions[k].w <= params.width
              /\ regions[k].y + regions[k].h <= params.height

----------------------------------------------------------------------------
(* MetaSubImages._do_process on object-detection records *)

\* the records fed to the filter: a 100 x 100 image with up to MaxObjs objects
DetObjects ==
    {Obj(40, 40, 20, 20, "a"), Obj(0, 0, 50, 50, "a"), Obj(50, 50, 50, 50, "b"),
     Obj(60, 60, 40, 40, "a"), Obj(40, 0, 20, 20, "a"), Obj(10, 10, 20, 20, "a"),
     Obj(50, 0, 50, 50, "a"), Obj(0, 50, 50, 50, "a"),
     Obj(49, 10, 2, 30, "b"), Obj(30, 60, 45, 10, "a"),
     [Obj(40, 50, 20, 20, "a") EXCEPT !.poly = <<40, 50, 59, 69>>]}

DetRecords ==
    {[image_width |-> 100, image_height |-> 100, annotation |-> objs] :
        objs \in UNION {[1..n -> DetObjects] : n \in 0..MaxObjs}}

\* the options: a 2 x 2 grid, no overlap, no padding, rebuild_image
MetaConfigs ==
    [num_rows : {2}, num_cols : {2}, overlap_right : {0}, overlap_bottom : {0},
     include_partial : BOOLEAN, suppress_empty : BOOLEAN,
     merge_adjacent_polygons : BOOLEAN]

\* generate_regions(item.image_width, item.image_height, num_rows=..., ...)
MetaParams(it, cfg) ==
    [width |-> it.image_width, height |-> it.image_height,
     num_rows |-> cfg.num_rows, num_cols |-> cfg.num_cols, fixed_size |-> FALSE,
     row_height |-> NoneVal, col_width |-> NoneVal, partial |-> FALSE, margin |-> 0,
     overlap_right |-> cfg.overlap_right, overlap_bottom |-> cfg.overlap_bottom,
     margin_left |-> 0, margin_top |-> 0, margin_right |-> 0, margin_bottom |-> 0]

\* regions_lobj of the record: generate, regions_to_string, split, parse
MetaRegions(it, cfg) ==
    parse_regions(StrSplit(regions_to_string(generate(MetaParams(it, cfg)))))

\* isinstance(new_sub_item, list): log an error and "continue"
SkipOnList(is_list) == is_list

\* where the loop over sub_items goes after position k
AfterTile(k, n) == IF k < n THEN "filter" ELSE "prune"

\* a loop that goes on to the next tile after every call of the base filter;
\* not what the code does
AfterFilterNextTile(is_list, k, n) == AfterTile(k, n)

\* where the loop goes after the base filter returned for position k: on to
\* transfer_region, unless the result is a list
AfterFilter(is_list, k, n) ==
    IF SkipOnList(is_list) THEN AfterTile(k, n) ELSE "transfer"

MetaInit ==
    /\ item \in DetRecords
    /\ meta_cfg \in MetaConfigs
    /\ meta_pc = "start"
    /\ sub_items = <<>> /\ sub_idx = 0 /\ new_sub_item = <<>> /\ new_item = <<>>
    /\ result = <<>> /\ filter_calls = <<>> /\ list_tiles = {} /\ transfers = <<>>
    /\ GenIdle
    /\ MergeIdle
    /\ XferIdle
    /\ ExIdle
    /\ PruneIdle
    /\ TileIdle
    /\ MixIdle

\* regions, extract_regions(...), new_from_template(item)
MetaExtract ==
    /\ meta_pc = "start"
    /\ LET subs == process_image(item, MetaRegions(item, meta_cfg),
                                 meta_cfg.suppress_empty, meta_cfg.include_partial)
       IN /\ sub_items' = subs
          /\ sub_idx' = 1
          /\ meta_pc' = AfterTile(0, Len(subs))
    /\ new_item' = new_from_template(item)
    /\ UNCHANGED <<item, meta_cfg, new_sub_item, result, filter_calls, list_tiles,
                   transfers, genVars, mergeVars, xferVars, exVars, pruneVars, tileVars, mixVars>>

\* self._base_filter.process(sub_item) returns one record (the passthrough)
FilterReturnsItem ==
    /\ meta_pc = "filter"
    /\ new_sub_item' = sub_items[sub_idx]
    /\ filter_calls' = Append(filter_calls, sub_idx)
    /\ meta_pc' = AfterFilter(FALSE, sub_idx, Len(sub_items))
    /\ UNCHANGED <<item, meta_cfg, sub_items, sub_idx, new_item, result, list_tiles,
                   transfers, genVars, mergeVars, xferVars, exVars, pruneVars, tileVars, mixVars>>

\* self._base_filter.process(sub_item) returns a list
FilterReturnsList ==
    /\ meta_pc = "filter"
    /\ new_sub_item' = sub_items[sub_idx]
    /\ filter_calls' = Append(filter_calls, sub_idx)
    /\ list_tiles' = list_tiles \cup {sub_idx}
    /\ sub_idx' = IF SkipOnList(TRUE) THEN sub_idx + 1 ELSE sub_idx
    /\ meta_pc' = AfterFilter(TRUE, sub_idx, Len(sub_items))
    /\ UNCHANGED <<item, meta_cfg, sub_items, new_item, result, transfers, genVars,
                   mergeVars, xferVars, exVars, pruneVars, tileVars, mixVars>>

\* transfer_region(new_item, new_sub_item, sub_region, ...)
MetaTransfer ==
    /\ meta_pc = "transfer"
    /\ new_item' = transfer_region(new_item, new_sub_item.annotation, new_sub_item.region)
    /\ transfers' = Append(transfers,
                           [pos |-> sub_idx, region |-> new_sub_item.region,
                            sub |-> new_sub_item.annotation,
                            appended |-> SubSeq(new_item'.annotation,
                                                Len(new_item.annotation) + 1,
                                                Len(new_item'.annotation))])
    /\ sub_idx' = sub_idx + 1
    /\ meta_pc' = AfterTile(sub_idx, Len(sub_items))
    /\ UNCHANGED <<item, meta_cfg, sub_items, new_sub_item, result, filter_calls,
                   list_tiles, genVars, mergeVars, xferVars, exVars, pruneVars, tileVars, mixVars>>

\* prune_annotations(new_item)
MetaPrune ==
    /\ meta_pc = "prune"
    /\ new_item' = prune_annotations(new_item)
    /\ meta_pc' = IF meta_cfg.merge_adjacent_polygons THEN "merge" ELSE "emit"
    /\ UNCHANGED <<item, meta_cfg, sub_items, sub_idx, new_sub_item, result,
                   filter_calls, list_tiles, transfers, genVars, mergeVars, xferVars,
                   exVars, pruneVars, tileVars, mixVars>>

\* new_item = merge_polygons(new_item); len() of the annotation None raises
MetaMerge ==
    /\ meta_pc = "merge"
    /\ IF ~new_item.annotated
       THEN /\ meta_pc' = "error"
            /\ UNCHANGED new_item
       ELSE /\ meta_pc' = "emit"
            /\ new_item' = [new_item EXCEPT !.annotation = merge_polygons(@)]
    /\ UNCHANGED <<item, meta_cfg, sub_items, sub_idx, new_sub_item, result,
                   filter_calls, list_tiles, transfers, genVars, mergeVars, xferVars,
                   exVars, pruneVars, tileVars, mixVars>>

\* result.append(new_item)
MetaEmit ==
    /\ meta_pc = "emit"
    /\ result' = Append(result, new_item)
    /\ meta_pc' = "done"
    /\ UNCHANGED <<item, meta_cfg, sub_items, sub_idx, new_sub_item, new_item,
                   filter_calls, list_tiles, transfers, genVars, mergeVars, xferVars,
                   exVars, pruneVars, tileVars, mixVars>>

MetaNext ==
    \/ MetaExtract
    \/ FilterReturnsItem
    \/ FilterReturnsList
    \/ MetaTransfer
    \/ MetaPrune
    \/ MetaMerge
    \/ MetaEmit

SpecMeta == MetaInit /\ [][MetaNext]_vars

----------------------------------------------------------------------------
(* Claims about the object-detection pipeline *)

SameBox(a, b) == a.x = b.x /\ a.y = b.y /\ a.width = b.width /\ a.height = b.height

\* the objects of the full record (none once the annotation is None)
FullObjects(rec) == IF rec.annotated THEN rec.annotation ELSE <<>>

IsTileFootprint(o, lobjs) == \E k \in DOMAIN lobjs : SameBox(o, lobjs[k])

\* every tile went through the identity transform and was transferred
AllTransferred ==
    /\ meta_pc = "prune"
    /\ list_tiles = {}

\* C2: round trip with include_partial and the identity per-tile transform:
\* after the last transfer every original object whose bbox is the footprint
\* of one tile is in the full record with the same x, y, width, height, label.
C2_DetectionRoundTrip ==
    (AllTransferred /\ meta_cfg.include_partial) =>
        \A i \in DOMAIN item.annotation :
            IsTileFootprint(item.annotation[i], MetaRegions(item, meta_cfg)) =>
                \E j \in DOMAIN new_item.annotation :
                    /\ SameBox(item.annotation[i], new_item.annotation[j])
                    /\ item.annotation[i].label = new_item.annotation[j].label

\* the scenario: one object (40,40,20,20) on the 100 x 100 image, 2 x 2 grid,
\* include_partial, identity transform, merging enabled
ScenarioCase ==
    /\ item.annotation = <<Obj(40, 40, 20, 20, "a")>>
    /\ meta_cfg.include_partial
    /\ meta_cfg.merge_adjacent_polygons
    /\ list_tiles = {}

\* tile-local clipped boxes of the scenario, by region index 0..3
ScenarioFragments ==
    <<LocatedObject(40, 40, 10, 10), LocatedObject(0, 40, 10, 10),
      LocatedObject(40, 0, 10, 10), LocatedObject(0, 0, 10, 10)>>

\* C3: the scenario yields 4 tile-local objects, one per tile, each the
\* tile's portion of the box, and reassembly followed by merge_polygons
\* yields exactly one object with bbox (40,40,20,20).
C3_ConcreteScenario ==
    ScenarioCase =>
        /\ (meta_pc # "start") =>
              /\ Len(sub_items) = 4
              /\ \A k \in DOMAIN sub_items :
                    /\ Len(sub_items[k].annotation) = 1
                    /\ SameBox(sub_items[k].annotation[1], ScenarioFragments[k])
        /\ (meta_pc = "done") =>
              /\ Len(FullObjects(result[1])) = 1
              /\ SameBox(FullObjects(result[1])[1], LocatedObject(40, 40, 20, 20))

\* object o (pixels [x, x+w) x [y, y+h)) spans exactly the two horizontally
\* adjacent, non-overlapping tiles a (left) and b (right)
SpansTwoTiles(o, a, b) ==
    /\ a.y = b.y /\ a.height = b.height /\ a.x + a.width = b.x
    /\ a.x <= o.x /\ o.x < b.x /\ b.x < o.x + o.width /\ o.x + o.width <= b.x + b.width
    /\ a.y <= o.y /\ o.y + o.height <= a.y + a.height

\* the tile-local objects of all tiles, as <<position in sub_items, position in the tile>>
Fragments == {<<k, j>> \in (DOMAIN sub_items) \X (1..MaxObjs) : j <= Len(sub_items[k].annotation)}

TwoTileCase(a, b) ==
    /\ meta_pc # "start"
    /\ meta_cfg.include_partial
    /\ Len(item.annotation) = 1
    /\ ~has_polygon(item.annotation[1])
    /\ SpansTwoTiles(item.annotation[1], a, b)

\* what holds of the two fragments but for the sum of their widths
TwoFragments(a, b) ==
    /\ Cardinality(Fragments) = 2
    /\ \E ka, kb \in DOMAIN sub_items :
          /\ sub_items[ka].region = a /\ sub_items[kb].region = b
          /\ Len(sub_items[ka].annotation) = 1 /\ Len(sub_items[kb].annotation) = 1
          /\ sub_items[ka].annotation[1].region_index = sub_items[ka].index
          /\ sub_items[kb].annotation[1].region_index = sub_items[kb].index
          /\ sub_items[ka].annotation[1].region_xywh = <<a.x, a.y, a.width, a.height>>
          /\ sub_items[kb].annotation[1].region_xywh = <<b.x, b.y, b.width, b.height>>

WidthSum(a, b) ==
    LET ka == CHOOSE k \in DOMAIN sub_items : sub_items[k].region = a
        kb == CHOOSE k \in DOMAIN sub_items : sub_items[k].region = b
    IN sub_items[ka].annotation[1].width + sub_items[kb].annotation[1].width

TilePairs ==
    LET lobjs == MetaRegions(item, meta_cfg)
    IN {<<lobjs[i], lobjs[j]>> : i \in DOMAIN lobjs, j \in DOMAIN lobjs}

\* C4 as stated: an object without polygon spanning exactly two horizontally
\* adjacent tiles yields exactly two tile-local objects, one per tile, tagged
\* with their own tile, whose widths sum to the original width minus 1.
C4_PartialClippingMinusOne ==
    \A ab \in TilePairs :
        TwoTileCase(ab[1], ab[2]) =>
            /\ TwoFragments(ab[1], ab[2])
            /\ WidthSum(ab[1], ab[2]) = item.annotation[1].width - 1

\* C4 as amended: ... whose widths sum to the original width.
C4_PartialClipping ==
    \A ab \in TilePairs :
        TwoTileCase(ab[1], ab[2]) =>
            /\ TwoFragments(ab[1], ab[2])
            /\ WidthSum(ab[1], ab[2]) = item.annotation[1].width

C4_Witness ==
    /\ \E ab \in TilePairs : TwoTileCase(ab[1], ab[2])
    /\ Cardinality(Fragments) = 2

\* what a transfer_region call appends when every object of the sub-record
\* is translated by the region of the call, then discarded or clipped
ExpectedAppended(sub, region, img_width, img_height) ==
    LET moved == [k \in DOMAIN sub |-> Relocate(sub[k], region)]
        kept == SelectSeq(moved, LAMBDA o : o.x < img_width /\ o.y < img_height)
    IN [k \in DOMAIN kept |->
          IF NeedsFit(kept[k], img_width, img_height)
          THEN fit_located_object(-1, LocatedObject(0, 0, img_width, img_height), kept[k])
          ELSE kept[k]]

\* C7: every transfer_region call translates each object of the sub-record,
\* at every position of its list, by (region.x, region.y) of the region
\* passed to the call before discarding or clipping it.
C7_TransferTranslatesEveryObject ==
    \A t \in DOMAIN transfers :
        transfers[t].appended =
            ExpectedAppended(transfers[t].sub, transfers[t].region,
                             item.image_width, item.image_height)

\* C10: once the base filter has returned a list for a tile, no reassembled
\* record is emitted for the input record.
C10_ListAbortsRecord == (list_tiles # {}) => (result = <<>>)

----------------------------------------------------------------------------
(* Calls of merge_polygons(), once and again on its own output *)

MaxMergeObjs == 4

\* 10 x 10 boxes side by side: the box of slot k covers x in [10k, 10k + 9],
\* so the boxes of neighbouring slots have vertical edges at distance 1
MergeSlots == 0..3

Box(k, label, score) == [Obj(10 * k, 0, 10, 10, label) EXCEPT !.score = score]

MergeObjects ==
    {Box(k, "a", <<>>) : k \in MergeSlots}
        \cup {Box(1, "b", <<>>), Box(0, "a", <<1, 2>>),
              [Box(1, "a", <<1, 4>>) EXCEPT !.region_index = 1,
                                            !.region_xywh = <<10, 0, 10, 10>>]}

MergeInit ==
    /\ merge_input \in UNION {[1..n -> MergeObjects] : n \in 1..MaxMergeObjs}
    /\ merged_once = <<>>
    /\ merged_twice = <<>>
    /\ merge_pc = "call"
    /\ GenIdle
    /\ MetaIdle
    /\ XferIdle
    /\ ExIdle
    /\ PruneIdle
    /\ TileIdle
    /\ MixIdle

MergeOnce ==
    /\ merge_pc = "call"
    /\ merged_once' = merge_polygons(merge_input)
    /\ merge_pc' = "once"
    /\ UNCHANGED <<merge_input, merged_twice, genVars, metaVars, xferVars, exVars, pruneVars, tileVars, mixVars>>

MergeAgain ==
    /\ merge_pc = "once"
    /\ merged_twice' = merge_polygons(merged_once)
    /\ merge_pc' = "twice"
    /\ UNCHANGED <<merge_input, merged_once, genVars, metaVars, xferVars, exVars, pruneVars, tileVars, mixVars>>

MergeNext == MergeOnce \/ MergeAgain

SpecMerge == MergeInit /\ [][MergeNext]_vars

----------------------------------------------------------------------------
(* Claims about merge_polygons() *)

\* geometry, label and score of an object
ObjKey(o) == <<o.x, o.y, o.width, o.height, polygon_to_shapely(o), o.label, o.score>>

CountOf(objs, key) == Cardinality({i \in DOMAIN objs : ObjKey(objs[i]) = key})

SameObjects(a, b) ==
    \A key \in {ObjKey(a[i]) : i \in DOMAIN a} \cup {ObjKey(b[i]) : i \in DOMAIN b} :
        CountOf(a, key) = CountOf(b, key)

\* C5: merge idempotence: a second run of merge_polygons on the output of the
\* first returns the same objects (geometry, label, score), and the output of
\* the first run has no pair of objects a second run treats as candidates.
C5_MergeIdempotent ==
    (merge_pc = "twice") =>
        /\ SameObjects(merged_twice, merged_once)
        /\ ParallelKeys(merged_once) = {}

\* the candidate-pair graph on the indices of objs
Linked(objs, i, j) ==
    /\ i # j
    /\ IsCandidate(objs[Min(i, j)], objs[Max(i, j)])

RECURSIVE Component(_, _)
Component(objs, S) ==
    LET T == S \cup {j \in DOMAIN objs : \E i \in S : Linked(objs, i, j)}
    IN IF T = S THEN S ELSE Component(objs, T)

\* C6: the merge sets are the connected components of the candidate-pair
\* graph: every index is in at most one merge set, the members of a merge set
\* are linked by chains of candidate pairs, and two indices linked by a chain
\* of candidate pairs are in the same merge set.
C6_MergeSetsAreComponents ==
    (merge_pc # "call") =>
        LET merge_sets == MergeState(merge_input).merge_sets
        IN /\ \A i \in DOMAIN merge_input :
                 Cardinality({n \in DOMAIN merge_sets : i \in merge_sets[n]}) <= 1
           /\ \A n \in DOMAIN merge_sets : \A i \in merge_sets[n] :
                 merge_sets[n] \subseteq Component(merge_input, {i})
           /\ \A i \in DOMAIN merge_input :
                 \A j \in Component(merge_input, {i}) \ {i} :
                    \E n \in DOMAIN merge_sets : {i, j} \subseteq merge_sets[n]

----------------------------------------------------------------------------
(* Segmentation layers.  A layer is [width, height, px] with px[<<x, y>>]   *)
(* the value of the array at row y, column x.                               *)

Pixels(w, h) == (0..(w - 1)) \X (0..(h - 1))

\* np.zeros((image_height, image_width), dtype=np.uint8)
ZeroLayer(w, h) == [width |-> w, height |-> h, px |-> [p \in Pixels(w, h) |-> 0]]

\* pad_image on an array: zeros of the padded size, the array in the top left
pad_image(img, pad_width, pad_height) ==
    IF img.width # pad_width \/ img.height # pad_height
    THEN [width |-> pad_width, height |-> pad_height,
          px |-> [p \in Pixels(pad_width, pad_height) |->
                    IF p[1] < img.width /\ p[2] < img.height THEN img.px[p] ELSE 0]]
    ELSE img

\* crop_image on an array: img[0:crop_height, 0:crop_width]
crop_image(img, crop_width, crop_height) ==
    IF img.width # crop_width \/ img.height # crop_height
    THEN LET w == Min(crop_width, img.width)
             h == Min(crop_height, img.height)
         IN [width |-> w, height |-> h, px |-> [p \in Pixels(w, h) |-> img.px[p]]]
    ELSE img

\* full[y:y + h, x:x + w] = layer, for a layer of the shape of the slice
AssignSlice(full, x, y, w, h, layer) ==
    [full EXCEPT !.px =
        [p \in DOMAIN @ |->
            IF x <= p[1] /\ p[1] < x + w /\ y <= p[2] /\ p[2] < y + h
            THEN layer.px[<<p[1] - x, p[2] - y>>]
            ELSE @[p]]]

\* transfer_region, image segmentation: one layer of the sub-record
transfer_layer(full, layer, region, crop_width, crop_height) ==
    AssignSlice(full, region.x, region.y, region.width, region.height,
                crop_image(layer, crop_width, crop_height))

----------------------------------------------------------------------------
(* Reassembly: transfer_region calls for the tiles of one image, any order  *)

SegWidth == 3
SegHeight == 2

XferImage == [image_width |-> SegWidth, image_height |-> SegHeight]

\* one row of two tiles, with or without a shared column
XferConfigs ==
    [num_rows : {1}, num_cols : {2}, overlap_right : {0, 1}, overlap_bottom : {0}]

Uniform(w, h, v) == [width |-> w, height |-> h, px |-> [p \in Pixels(w, h) |-> v]]

LeftColumn(w, h, v) ==
    [width |-> w, height |-> h, px |-> [p \in Pixels(w, h) |-> IF p[1] = 0 THEN v ELSE 0]]

\* the layers a base filter may hand back for a tile of w x h pixels
SubLayers(w, h) ==
    {Uniform(w, h, 0), Uniform(w, h, 100), Uniform(w, h, 200), LeftColumn(w, h, 200),
     pad_image(Uniform(w, h, 200), w + 1, h)}

\* the tile-local objects a base filter may hand back
SubObjects ==
    {<<>>,
     <<[Obj(0, 0, 1, 1, "a") EXCEPT !.poly = <<0, 0, 0, 0>>]>>,
     <<[Obj(1, 0, 1, 2, "a") EXCEPT !.poly = <<1, 0, 1, 1>>],
       [Obj(0, 0, 1, 1, "b") EXCEPT !.poly = <<0, 0, 0, 0>>]>>,
     <<[Obj(1, 0, 1, 2, "a") EXCEPT !.poly = <<1, 0, 1, 1>>],
       [Obj(2, 0, 1, 1, "b") EXCEPT !.poly = <<2, 0, 2, 0>>]>>}

\* a classification annotation: a string, here a sequence of characters, or
\* None (annotated is FALSE)
NoLabel == [annotated |-> FALSE, label |-> <<>>]

Label(str) == [annotated |-> TRUE, label |-> str]

\* the annotations a base filter may hand back for a tile of a classification
\* record: none, the empty string, one label, a comma-separated list
SubLabels == {NoLabel, Label(<<>>), Label(<<"a">>), Label(<<"b">>), Label(<<"a", ",", "b">>)}

\* str.split(",")
RECURSIVE Split(_)
Split(str) ==
    LET commas == {k \in DOMAIN str : str[k] = ","}
    IN IF commas = {} THEN <<str>>
       ELSE LET k == CHOOSE k \in commas : \A j \in commas : k <= j
            IN <<SubSeq(str, 1, k - 1)>> \o Split(SubSeq(str, k + 1, Len(str)))

\* ",".join(labels)
RECURSIVE Join(_)
Join(labels) ==
    IF Len(labels) = 0 THEN <<>>
    ELSE IF Len(labels) = 1 THEN labels[1]
    ELSE labels[1] \o <<",">> \o Join(Tail(labels))

\* the classification record new_from_template() creates
new_from_template_cls == NoLabel

\* transfer_region() on a classification record
transfer_region_cls(full_annotation, sub_annotation) ==
    IF ~sub_annotation.annotated THEN full_annotation
    ELSE IF ~full_annotation.annotated THEN sub_annotation
    ELSE LET labels == Split(full_annotation.label)
         IN IF \E k \in DOMAIN labels : labels[k] = sub_annotation.label
            THEN full_annotation
            ELSE Label(Join(Append(labels, sub_annotation.label)))

XferPairs(cfg) ==
    LET lobjs == MetaRegions(XferImage, cfg)
        xyxy == regions_xyxy(lobjs)
    IN {ps \in [DOMAIN lobjs ->
                  [region : {lobjs[k] : k \in DOMAIN lobjs},
                   orig_dims : {OrigDims(xyxy[k], SegWidth, SegHeight) : k \in DOMAIN lobjs},
                   layer : UNION {SubLayers(lobjs[k].width, lobjs[k].height) : k \in DOMAIN lobjs},
                   objs : SubObjects,
                   cls : SubLabels]] :
          \A k \in DOMAIN lobjs :
             /\ ps[k].region = lobjs[k]
             /\ ps[k].orig_dims = OrigDims(xyxy[k], SegWidth, SegHeight)
             /\ ps[k].layer \in SubLayers(lobjs[k].width, lobjs[k].height)}

XferInit ==
    /\ pairs \in UNION {XferPairs(cfg) : cfg \in XferConfigs}
    /\ seg_full = ZeroLayer(SegWidth, SegHeight)
    /\ det_full = new_from_template(XferImage)
    /\ cls_full = new_from_template_cls
    /\ call_order = <<>>
    /\ GenIdle
    /\ MetaIdle
    /\ MergeIdle
    /\ ExIdle
    /\ PruneIdle
    /\ TileIdle
    /\ MixIdle

\* one transfer_region call on the segmentation record, one on the detection
\* record and one on the classification record, for the pair at position k
SegAfter(full, pr) ==
    transfer_layer(full, pr.layer, pr.region, pr.orig_dims[1], pr.orig_dims[2])

DetAfter(full, pr) == transfer_region(full, pr.objs, pr.region)

ClsAfter(full, pr) == transfer_region_cls(full, pr.cls)

Transfer(k) ==
    /\ \A j \in DOMAIN call_order : call_order[j] # k
    /\ seg_full' = SegAfter(seg_full, pairs[k])
    /\ det_full' = DetAfter(det_full, pairs[k])
    /\ cls_full' = ClsAfter(cls_full, pairs[k])
    /\ call_order' = Append(call_order, k)
    /\ UNCHANGED <<pairs, genVars, metaVars, mergeVars, exVars, pruneVars, tileVars, mixVars>>

XferNext == \E k \in DOMAIN pairs : Transfer(k)

SpecTransfer == XferInit /\ [][XferNext]_vars

----------------------------------------------------------------------------
(* Claims about reassembly *)

MaxMaskValue == 255

\* what the pair at position k contributes at pixel p of the full layer
Covers2(pr, p) ==
    /\ pr.region.x <= p[1] /\ p[1] < pr.region.x + pr.region.width
    /\ pr.region.y <= p[2] /\ p[2] < pr.region.y + pr.region.height

Contribution(pr, p) ==
    IF Covers2(pr, p)
    THEN crop_image(pr.layer, pr.orig_dims[1], pr.orig_dims[2]).px[
             <<p[1] - pr.region.x, p[2] - pr.region.y>>]
    ELSE 0

RECURSIVE ContributionSum(_, _, _)
ContributionSum(order, n, p) ==
    IF n = 0 THEN 0
    ELSE ContributionSum(order, n - 1, p) + Contribution(pairs[order[n]], p)

\* C8: after any sequence of transfer_region calls every pixel of the full
\* layer is the sum of the values the transferred sub-layers contribute at
\* that pixel, clipped to the maximum mask value.
C8_SegmentationAccumulates ==
    \A p \in Pixels(SegWidth, SegHeight) :
        seg_full.px[p] = Min(MaxMaskValue, ContributionSum(call_order, Len(call_order), p))

\* the full records after the calls in the order of the positions in pairs
RECURSIVE SegInOrder(_)
SegInOrder(n) ==
    IF n = 0 THEN ZeroLayer(SegWidth, SegHeight)
    ELSE SegAfter(SegInOrder(n - 1), pairs[n])

RECURSIVE DetInOrder(_)
DetInOrder(n) ==
    IF n = 0 THEN new_from_template(XferImage)
    ELSE DetAfter(DetInOrder(n - 1), pairs[n])

\* C9: reassembly is order-independent: whatever the order of the
\* transfer_region calls for a fixed set of pairs, the final segmentation
\* layer and the multiset of detection objects are those of the calls made
\* in the order of the list.
C9_OrderIndependent ==
    (Len(call_order) = Len(pairs)) =>
        /\ seg_full = SegInOrder(Len(pairs))
        /\ SameObjects(det_full.annotation, DetInOrder(Len(pairs)).annotation)

----------------------------------------------------------------------------
(* process_image for the three kinds of record.  A record has a kind:       *)
(*   "det"  annotation: the list of objects                                 *)
(*   "seg"  annotated, layers: label -> layer (annotated = FALSE: None)     *)
(*   "cls"  annotated, label: the label as a string of characters           *)
(*          (annotated = FALSE: None)                                       *)

\* layer[y:y + h, x:x + w]: the slice, cut off at the edges of the array
CropTo(layer, x, y, w, h) ==
    LET x0 == Min(x, layer.width)
        y0 == Min(y, layer.height)
        cw == Min(x + w, layer.width) - x0
        ch == Min(y + h, layer.height) - y0
    IN [width |-> cw, height |-> ch,
        px |-> [p \in Pixels(cw, ch) |-> layer.px[<<p[1] + x0, p[2] + y0>>]]]

\* a layer with a pixel that is 0 counts as background; not what the code tests
AllBackgroundSome(layer) == \E p \in DOMAIN layer.px : layer.px[p] = 0

\* np.unique(layer) has one element and it is 0
AllBackground(layer) ==
    /\ DOMAIN layer.px # {}
    /\ \A p \in DOMAIN layer.px : layer.px[p] = 0

\* fit_layers(region, annotations, suppress_empty): the layers of the tile
fit_layers(region, layers, suppress_empty) ==
    LET cropped == [l \in DOMAIN layers |->
                      CropTo(layers[l], region.x, region.y, region.width, region.height)]
        keep == {l \in DOMAIN layers : ~(suppress_empty /\ AllBackground(cropped[l]))}
    IN [l \in keep |-> cropped[l]]

\* the layers of the tile of region k of an image-segmentation record
SegLayers(it, region, suppress_empty) ==
    IF it.annotated THEN fit_layers(region, it.layers, suppress_empty) ELSE <<>>

SegSubItem(it, lobjs, k, suppress_empty) ==
    LET layers == SegLayers(it, lobjs[k], suppress_empty)
    IN [region |-> lobjs[k], index |-> k - 1,
        annotated |-> DOMAIN layers # {}, layers |-> layers,
        orig_dims |-> OrigDims(regions_xyxy(lobjs)[k], it.image_width, it.image_height)]

ClsSubItem(it, lobjs, k) ==
    [region |-> lobjs[k], index |-> k - 1, annotated |-> it.annotated, label |-> it.label,
     orig_dims |-> OrigDims(regions_xyxy(lobjs)[k], it.image_width, it.image_height)]

\* the loop over the regions of an image-segmentation record
RECURSIVE ProcessSegFrom(_, _, _, _)
ProcessSegFrom(it, lobjs, k, suppress_empty) ==
    IF k > Len(lobjs) THEN <<>>
    ELSE LET sub == SegSubItem(it, lobjs, k, suppress_empty)
             rest == ProcessSegFrom(it, lobjs, k + 1, suppress_empty)
         IN IF ~suppress_empty \/ DOMAIN sub.layers # {}
            THEN <<sub>> \o rest
            ELSE rest

\* the loop over the regions of an image-classification record
RECURSIVE ProcessClsFrom(_, _, _, _)
ProcessClsFrom(it, lobjs, k, suppress_empty) ==
    IF k > Len(lobjs) THEN <<>>
    ELSE LET rest == ProcessClsFrom(it, lobjs, k + 1, suppress_empty)
         IN IF ~suppress_empty \/ it.annotated
            THEN <<ClsSubItem(it, lobjs, k)>> \o rest
            ELSE rest

\* process_image on a record of any of the three kinds
process_image_kind(it, lobjs, suppress_empty, include_partial) ==
    IF it.kind = "cls" THEN ProcessClsFrom(it, lobjs, 1, suppress_empty)
    ELSE IF it.kind = "det" THEN process_image(it, lobjs, suppress_empty, include_partial)
    ELSE ProcessSegFrom(it, lobjs, 1, suppress_empty)

----------------------------------------------------------------------------
(* SubImages._do_process: the filter's own extractor.  A tile is            *)
(*   index: the region_index, size: the size of the cropped image,          *)
(*   and the annotation fields of the record's kind                         *)

\* pil.crop((x0, y0, x1, y1)) after x1, y1 were cut at the image's size
SubImagesCropSize(xyxy, image_width, image_height) ==
    LET x1 == IF xyxy[3] > image_width THEN image_width ELSE xyxy[3]
        y1 == IF xyxy[4] > image_height THEN image_height ELSE xyxy[4]
    IN <<x1 - xyxy[1], y1 - xyxy[2]>>

\* SubImages._fit_located_object(index, region, annotation)
SubImages_fit_located_object(index, region, annotation) ==
    LET sregion == bbox_to_shapely(region)
        sbbox == bbox_to_shapely(annotation)
        sintersect == Intersection(sbbox, sregion)
        pintersect == Intersection(polygon_to_shapely(annotation), sregion)
    IN [annotation EXCEPT
          !.x = sintersect[1] - region.x,
          !.y = sintersect[2] - region.y,
          !.width = sintersect[3] - sintersect[1] + 1,
          !.height = sintersect[4] - sintersect[2] + 1,
          !.region_index = index,
          !.region_xywh = <<region.x, region.y, region.width, region.height>>,
          !.poly = IF IsPolygon(pintersect)
                   THEN Shift(pintersect, 0 - region.x, 0 - region.y)
                   ELSE @]

\* SubImages._fit_layers(region, annotations): the slices end at
\* region.y + region.height - 1 and region.x + region.width - 1
SubImages_fit_layers(region, layers, suppress_empty) ==
    LET cropped == [l \in DOMAIN layers |->
                      CropTo(layers[l], region.x, region.y,
                             region.width - 1, region.height - 1)]
        keep == {l \in DOMAIN layers : ~(suppress_empty /\ AllBackground(cropped[l]))}
    IN [l \in keep |-> cropped[l]]

SubImagesNewObjects(objects, region_index, region, include_partial) ==
    LET hit == SelectSeq(objects, LAMBDA a : ObjectIncluded(region, a, include_partial))
    IN [k \in DOMAIN hit |-> SubImages_fit_located_object(region_index, region, hit[k])]

\* item_new of region k, and whether it is appended to the result
SubImagesTile(it, lobjs, k, suppress_empty, include_partial) ==
    LET size == SubImagesCropSize(regions_xyxy(lobjs)[k], it.image_width, it.image_height)
    IN IF it.kind = "cls"
       THEN [index |-> k - 1, size |-> size, annotated |-> it.annotated, label |-> it.label]
       ELSE IF it.kind = "det"
       THEN [index |-> k - 1, size |-> size,
             annotation |-> SubImagesNewObjects(it.annotation, k - 1, lobjs[k],
                                                include_partial)]
       ELSE [index |-> k - 1, size |-> size, annotated |-> TRUE,
             layers |-> SubImages_fit_layers(lobjs[k], it.layers, suppress_empty)]

SubImagesAppends(it, tile, suppress_empty) ==
    IF it.kind = "cls" THEN TRUE
    ELSE IF it.kind = "det" THEN ~suppress_empty \/ (Len(tile.annotation) > 0)
    ELSE ~suppress_empty \/ (DOMAIN tile.layers # {})

\* annotations.layers of an annotation that is None raises AttributeError
SubImagesFails(it, lobjs) == Len(lobjs) > 0 /\ it.kind = "seg" /\ ~it.annotated

RECURSIVE SubImagesFrom(_, _, _, _, _)
SubImagesFrom(it, lobjs, k, suppress_empty, include_partial) ==
    IF k > Len(lobjs) THEN <<>>
    ELSE LET tile == SubImagesTile(it, lobjs, k, suppress_empty, include_partial)
             rest == SubImagesFrom(it, lobjs, k + 1, suppress_empty, include_partial)
         IN IF SubImagesAppends(it, tile, suppress_empty)
            THEN <<tile>> \o rest
            ELSE rest

\* the loop over the regions of one record
SubImages_do_process(it, lobjs, suppress_empty, include_partial) ==
    SubImagesFrom(it, lobjs, 1, suppress_empty, include_partial)

----------------------------------------------------------------------------
(* Calls of process_image() *)

ExDim == 4

\* a box with the rectangle of its bbox as polygon
WithPolygon(o) == [o EXCEPT !.poly = bbox_to_shapely(o)]

\* the right triangle (x, y), (x + a, y), (x, y + a) with its bounding box
Triangle(x, y, a, label) ==
    [Obj(x, y, a + 1, a + 1, label) EXCEPT !.poly = <<x, y, x + a, y + a, x + y + a>>]

ExBoxes ==
    {Obj(x, y, w, h, "a") : x \in 0..(ExDim - 1), y \in 0..(ExDim - 1),
                            w \in 1..ExDim, h \in 1..ExDim}

ExObjects ==
    LET inside == {o \in ExBoxes : o.x + o.width <= ExDim /\ o.y + o.height <= ExDim}
    IN inside \cup {WithPolygon(o) : o \in inside}
              \cup {Triangle(t[1], t[2], t[3], "a") :
                      t \in {t \in (0..(ExDim - 1)) \X (0..(ExDim - 1)) \X (1..(ExDim - 1)) :
                                t[1] + t[3] < ExDim /\ t[2] + t[3] < ExDim}}

ExPairObjects == {Obj(0, 0, 2, 2, "a"), Obj(2, 2, 2, 2, "b"), Obj(1, 1, 2, 2, "a")}

Corner(w, h, v) ==
    [width |-> w, height |-> h, px |-> [p \in Pixels(w, h) |-> IF p = <<0, 0>> THEN v ELSE 0]]

ExLayers ==
    {ZeroLayer(ExDim, ExDim), Uniform(ExDim, ExDim, 200), LeftColumn(ExDim, ExDim, 200),
     Corner(ExDim, ExDim, 200)}

ExRecords ==
    {[kind |-> "det", image_width |-> ExDim, image_height |-> ExDim, annotation |-> objs] :
        objs \in {<<>>} \cup {<<o>> : o \in ExObjects}
                    \cup {<<o1, o2>> : o1 \in ExPairObjects, o2 \in ExPairObjects}}
    \cup {[kind |-> "seg", image_width |-> ExDim, image_height |-> ExDim,
           annotated |-> TRUE, layers |-> layers] :
            layers \in [{"a"} -> ExLayers] \cup [{"a", "b"} -> ExLayers]}
    \cup {[kind |-> "seg", image_width |-> ExDim, image_height |-> ExDim,
           annotated |-> FALSE, layers |-> <<>>]}
    \cup {[kind |-> "cls", image_width |-> ExDim, image_height |-> ExDim,
           annotated |-> TRUE, label |-> <<"a">>],
          [kind |-> "cls", image_width |-> ExDim, image_height |-> ExDim,
           annotated |-> FALSE, label |-> <<>>]}

ExGrids ==
    [num_rows : {1, 2}, num_cols : {1, 2}, overlap_right : {0, 1}, overlap_bottom : {0}]

\* the record, the regions and the flags of a call
ExInputs ==
    /\ ex_item \in ExRecords
    /\ ex_regions \in {MetaRegions(ex_item, g) : g \in ExGrids}
    /\ ex_cfg \in [suppress_empty : BOOLEAN, include_partial : BOOLEAN]
    /\ ex_subs = <<>>
    /\ ex_pc = "call"
    /\ ex_tiles = <<>>

ExInit ==
    /\ ExInputs
    /\ sub_pc = "idle"
    /\ GenIdle
    /\ MetaIdle
    /\ MergeIdle
    /\ XferIdle
    /\ PruneIdle
    /\ TileIdle
    /\ MixIdle

Extract ==
    /\ ex_pc = "call"
    /\ ex_subs' = process_image_kind(ex_item, ex_regions, ex_cfg.suppress_empty,
                                     ex_cfg.include_partial)
    /\ ex_pc' = "done"
    /\ UNCHANGED <<ex_item, ex_regions, ex_cfg, ex_tiles, sub_pc, genVars, metaVars,
                   mergeVars, xferVars, pruneVars, tileVars, mixVars>>

ExNext == Extract

SpecExtract == ExInit /\ [][ExNext]_vars

----------------------------------------------------------------------------
(* The SubImages filter and process_image() on the same record *)

SubImagesInit ==
    /\ ExInputs
    /\ sub_pc = "call"
    /\ GenIdle
    /\ MetaIdle
    /\ MergeIdle
    /\ XferIdle
    /\ PruneIdle
    /\ TileIdle
    /\ MixIdle

SubImagesProcess ==
    /\ sub_pc = "call"
    /\ IF SubImagesFails(ex_item, ex_regions)
       THEN /\ sub_pc' = "error"
            /\ ex_tiles' = <<>>
       ELSE /\ sub_pc' = "done"
            /\ ex_tiles' = SubImages_do_process(ex_item, ex_regions, ex_cfg.suppress_empty,
                                                ex_cfg.include_partial)
    /\ UNCHANGED <<ex_item, ex_regions, ex_cfg, ex_subs, ex_pc, genVars, metaVars,
                   mergeVars, xferVars, pruneVars, tileVars, mixVars>>

SubImagesNext == Extract \/ SubImagesProcess

SpecSubImages == SubImagesInit /\ [][SubImagesNext]_vars

----------------------------------------------------------------------------
(* Claims about process_image() *)

\* pixel p of the image lies in the region
InRegion(region, p) ==
    /\ region.x <= p[1] /\ p[1] < region.x + region.width
    /\ region.y <= p[2] /\ p[2] < region.y + region.height

\* the tile of the region has annotation content
HasContent(it, region, include_partial) ==
    IF it.kind = "cls" THEN it.annotated
    ELSE IF it.kind = "det"
    THEN \E i \in DOMAIN it.annotation :
            LET o == it.annotation[i]
                area == OverlapArea(region, o)
            IN \/ area = o.width * o.height
               \/ include_partial /\ area > 0
    ELSE /\ it.annotated
         /\ \E l \in DOMAIN it.layers : \E p \in DOMAIN it.layers[l].px :
               InRegion(region, p) /\ it.layers[l].px[p] > 0

\* positions of ex_regions whose tile is in the output
Emitted == {k \in DOMAIN ex_regions : \E j \in DOMAIN ex_subs : ex_subs[j].index = k - 1}

InRegionOrder ==
    \A i, j \in DOMAIN ex_subs :
        /\ ex_subs[i].region = ex_regions[ex_subs[i].index + 1]
        /\ (i < j) => (ex_subs[i].index < ex_subs[j].index)

\* C11: with suppress_empty the tiles in the output of process_image are
\* those with annotation content; without it the output has exactly one
\* entry per region, in region order.
C11_SuppressEmpty ==
    (ex_pc = "done") =>
        /\ InRegionOrder
        /\ ex_cfg.suppress_empty =>
              Emitted = {k \in DOMAIN ex_regions :
                            HasContent(ex_item, ex_regions[k], ex_cfg.include_partial)}
        /\ ~ex_cfg.suppress_empty =>
              /\ Len(ex_subs) = Len(ex_regions)
              /\ \A k \in DOMAIN ex_subs : ex_subs[k].index = k - 1

\* a tile was suppressed and another one emitted, for a record with content
C11_Witness ==
    /\ ex_pc = "done"
    /\ ex_cfg.suppress_empty
    /\ ex_item.kind = "seg"
    /\ Emitted # {}
    /\ Emitted # DOMAIN ex_regions

\* the objects of the tile of region k; none when the tile was left out
TileObjects(k) ==
    IF \E j \in DOMAIN ex_subs : ex_subs[j].index = k - 1
    THEN ex_subs[CHOOSE j \in DOMAIN ex_subs : ex_subs[j].index = k - 1].annotation
    ELSE <<>>

\* area(object /\ region) = area(object): the ratio is 1
FullyInside(o, region) == OverlapArea(region, o) = o.width * o.height

\* the ratio is strictly between 0 and 1
PartlyInside(o, region) ==
    /\ OverlapArea(region, o) > 0
    /\ OverlapArea(region, o) < o.width * o.height

\* the objects the inclusion rule places in the tile of the region
Placed(region, include_partial) ==
    SelectSeq(ex_item.annotation,
              LAMBDA o : FullyInside(o, region) \/ (include_partial /\ PartlyInside(o, region)))

\* C12: an object is in the tile of a region if its overlap ratio is 1, if
\* the ratio is strictly between 0 and 1 only with include_partial, and never
\* if the ratio is 0; without include_partial every object of a tile has the
\* size of its original and is only moved to the tile's origin.
C12_InclusionRule ==
    (ex_pc = "done" /\ ex_item.kind = "det") =>
        \A k \in DOMAIN ex_regions :
            LET placed == Placed(ex_regions[k], ex_cfg.include_partial)
                tile == TileObjects(k)
            IN /\ Len(tile) = Len(placed)
               /\ \A i \in DOMAIN tile :
                     /\ tile[i].label = placed[i].label
                     /\ ~ex_cfg.include_partial =>
                           /\ tile[i].width = placed[i].width
                           /\ tile[i].height = placed[i].height
                           /\ tile[i].x = placed[i].x - ex_regions[k].x
                           /\ tile[i].y = placed[i].y - ex_regions[k].y

\* an object cut by a region was kept out of its tile, and is in another tile
C12_Witness ==
    /\ ex_pc = "done" /\ ex_item.kind = "det"
    /\ ~ex_cfg.include_partial
    /\ \E k \in DOMAIN ex_regions : \E i \in DOMAIN ex_item.annotation :
          /\ PartlyInside(ex_item.annotation[i], ex_regions[k])
          /\ Len(TileObjects(k)) = 0
    /\ \E k \in DOMAIN ex_regions : Len(TileObjects(k)) > 0

----------------------------------------------------------------------------
(* Claims about degenerate intersections *)

\* the object has an extent with area: its polygon, else its bbox
ValidExtent(o) == IsPolygon(polygon_to_shapely(o))

\* fitting the object to the region gives a Polygon
FitsAsPolygon(o, region) ==
    IsPolygon(Intersection(polygon_to_shapely(o), bbox_to_shapely(region)))

\* C13: an object whose intersection with the region is empty, a point or a
\* line is not added to the tile (extraction) nor to the full record
\* (reassembly): every object of a tile and of the full record has an extent
\* with area, and a tile holds only the objects whose fit is a Polygon.
C13_DegenerateSkipped ==
    /\ \A k \in DOMAIN sub_items :
          /\ \A i \in DOMAIN sub_items[k].annotation :
                ValidExtent(sub_items[k].annotation[i])
          /\ Len(sub_items[k].annotation) =
                Len(SelectSeq(item.annotation,
                              LAMBDA o : /\ ObjectIncluded(sub_items[k].region, o,
                                                           meta_cfg.include_partial)
                                         /\ FitsAsPolygon(o, sub_items[k].region)))
    /\ \A t \in DOMAIN transfers : \A i \in DOMAIN transfers[t].appended :
          ValidExtent(transfers[t].appended[i])

\* the bbox of the object is the bounding box of its polygon
BboxOfPolygon(o) ==
    LET b == Bounds(o.poly)
    IN /\ o.x = b[1] /\ o.y = b[2]
       /\ o.width = b[3] - b[1] + 1
       /\ o.height = b[4] - b[2] + 1

\* C14: for an object with a polygon and every region it overlaps, the
\* object fit_located_object returns has the bounding box of its returned
\* polygon as bbox, also when the polygon is a triangle (stated for the
\* regions where the fit is a polygon).
C14_BboxOfClippedPolygon ==
    (/\ ex_pc = "done" /\ ex_item.kind = "det"
     /\ Len(ex_item.annotation) = 1
     /\ has_polygon(ex_item.annotation[1])
     /\ BboxOfPolygon(ex_item.annotation[1])) =>
        \A k \in DOMAIN ex_regions : \A i \in DOMAIN TileObjects(k) :
            FitsAsPolygon(ex_item.annotation[1], ex_regions[k]) =>
                BboxOfPolygon(TileObjects(k)[i])

----------------------------------------------------------------------------
(* Claims about the objects merge_polygons() returns *)

\* the sum of the scores of the objects with index in S, as an unreduced
\* fraction <<numerator, denominator>>
RECURSIVE ScoreSum(_, _)
ScoreSum(objs, S) ==
    IF S = {} THEN <<0, 1>>
    ELSE LET i == CHOOSE i \in S : TRUE
             r == ScoreSum(objs, S \ {i})
         IN <<objs[i].score[1] * r[2] + r[1] * objs[i].score[2], objs[i].score[2] * r[2]>>

\* score is the arithmetic mean of the scores of the objects with index in S
IsMeanOf(score, objs, S) ==
    LET t == ScoreSum(objs, S)
    IN /\ score # <<>>
       /\ score[1] * t[2] * Cardinality(S) = score[2] * t[1]

\* the output object built from merge set number n: the merged objects
\* follow the objects that were passed through
MergedAt(out, merge_sets, n) == out[Len(out) - Len(merge_sets) + n]

\* C15: the merged object of a merge group has the members' shared label,
\* the mean of the scores of the members that carry one (no score if none
\* does) and no other metadata of a member.
C15_MergedMetadata ==
    (merge_pc # "call") =>
        LET merge_sets == MergeState(merge_input).merge_sets
        IN \A n \in DOMAIN merge_sets :
              LET o == MergedAt(merged_once, merge_sets, n)
                  scored == {i \in merge_sets[n] : merge_input[i].score # <<>>}
              IN /\ \A i \in merge_sets[n] : merge_input[i].label = o.label
                 /\ IF scored = {} THEN o.score = <<>>
                    ELSE IsMeanOf(o.score, merge_input, scored)
                 /\ o.region_index = NoneVal
                 /\ o.region_xywh = <<>>

\* a merge group with a member with score, one without, and one with the
\* metadata of a region
C15_Witness ==
    /\ merge_pc = "once"
    /\ \E n \in DOMAIN MergeState(merge_input).merge_sets :
          LET members == MergeState(merge_input).merge_sets[n]
          IN /\ \E i \in members : merge_input[i].score # <<>>
             /\ \E i \in members : merge_input[i].score = <<>>
             /\ \E i \in members : merge_input[i].region_index # NoneVal

\* the indices of the objects that are in no candidate pair
InNoPair(objs) == {i \in DOMAIN objs : \A j \in DOMAIN objs : ~Linked(objs, i, j)}

\* C16: every object in no candidate pair is in the output of merge_polygons
\* exactly once with unchanged geometry and metadata, no output object is the
\* union of objects with different labels, and without any candidate pair the
\* annotation is left as it was.
C16_MergerFrame ==
    (merge_pc # "call") =>
        LET merge_sets == MergeState(merge_input).merge_sets
        IN /\ \A i \in InNoPair(merge_input) :
                 Cardinality({j \in DOMAIN merged_once : merged_once[j] = merge_input[i]}) = 1
           /\ \A n \in DOMAIN merge_sets : \A i, j \in merge_sets[n] :
                 merge_input[i].label = merge_input[j].label
           /\ (InNoPair(merge_input) = DOMAIN merge_input) => merged_once = merge_input

\* a merge takes place next to an object of a different label that touches
\* a merged object
C16_Witness ==
    /\ merge_pc = "once"
    /\ MergeState(merge_input).merge_sets # <<>>
    /\ \E i \in InNoPair(merge_input) :
          /\ merge_input[i].label = "b"
          /\ \E j \in DOMAIN merge_input :
                /\ j \notin InNoPair(merge_input)
                /\ IsCandidateAnyLabel(merge_input[i], merge_input[j])

----------------------------------------------------------------------------
(* Claims about the reassembly of classification records *)

\* the distinct non-empty labels of the first n transferred sub-records, in
\* first-seen order
RECURSIVE SeenLabels(_, _)
SeenLabels(order, n) ==
    IF n = 0 THEN <<>>
    ELSE LET seen == SeenLabels(order, n - 1)
             sub == pairs[order[n]].cls
         IN IF \/ ~sub.annotated
               \/ sub.label = <<>>
               \/ \E k \in DOMAIN seen : seen[k] = sub.label
            THEN seen
            ELSE Append(seen, sub.label)

\* C17: after any sequence of transfer_region calls on a classification
\* record made by new_from_template, its label is the comma-join of the
\* distinct non-empty labels of the transferred sub-records in first-seen
\* order, so a sub-record without label changes nothing.
C17_ClassificationReassembly ==
    LET seen == SeenLabels(call_order, Len(call_order))
    IN /\ cls_full.label = Join(seen)
       /\ (seen # <<>>) => cls_full.annotated

----------------------------------------------------------------------------
(* prune_annotations on records of the three kinds *)

\* np.unique(layer): the set of the values of the layer
Unique(layer) == {layer.px[p] : p \in DOMAIN layer.px}

\* the labels of the layers that hold 0 somewhere; not what the code collects
EmptyLabelsAnyZero(layers) == {label \in DOMAIN layers : 0 \in Unique(layers[label])}

\* empty: the labels of the layers whose only value is 0
EmptyLabels(layers) ==
    {label \in DOMAIN layers :
        /\ Cardinality(Unique(layers[label])) = 1
        /\ 0 \in Unique(layers[label])}

\* the segmentation branch: empty layers are deleted, no layer left ->
\* annotation = None
PruneSeg(image) ==
    LET kept == DOMAIN image.layers \ EmptyLabels(image.layers)
    IN [image EXCEPT !.layers = [label \in kept |-> image.layers[label]],
                     !.annotated = (kept # {})]

prune_annotations_kind(image) ==
    CASE image.kind = "cls" -> image
      [] image.kind = "det" -> prune_annotations(image)
      [] image.kind = "seg" -> PruneSeg(image)

\* the records prune_annotations is called with: the reassembled record of
\* each kind, with the annotation container new_from_template gave it
PruneLabelSets == {{}, {"a"}, {"a", "b"}, {"a", "b", "c"}}

PruneRecords ==
    {[kind |-> "det", annotated |-> TRUE, annotation |-> objs] : objs \in SubObjects}
    \cup {[kind |-> "seg", annotated |-> TRUE, layers |-> layers] :
            layers \in UNION {[labels -> SubLayers(SegWidth, SegHeight)] :
                                labels \in PruneLabelSets}}
    \cup {[kind |-> "cls", annotation |-> ann] : ann \in SubLabels}

PruneInit ==
    /\ pr_in \in PruneRecords
    /\ pr_out = <<>>
    /\ pr_pc = "call"
    /\ GenIdle
    /\ MetaIdle
    /\ MergeIdle
    /\ XferIdle
    /\ ExIdle
    /\ TileIdle
    /\ MixIdle

Prune ==
    /\ pr_pc = "call"
    /\ pr_out' = prune_annotations_kind(pr_in)
    /\ pr_pc' = "done"
    /\ UNCHANGED <<pr_in, genVars, metaVars, mergeVars, xferVars, exVars, tileVars, mixVars>>

PruneNext == Prune

SpecPrune == PruneInit /\ [][PruneNext]_vars

----------------------------------------------------------------------------
(* Claims about prune_annotations *)

\* the layer holds the background value at every pixel
AllZero(layer) == \A p \in Pixels(layer.width, layer.height) : layer.px[p] = 0

\* C18: prune_annotations turns a Detection record with zero objects into one
\* without annotation and leaves one with objects unchanged; of a
\* Segmentation record it removes exactly the layers that are entirely
\* background, keeps the others unchanged and leaves no annotation iff no
\* layer remains; a Classification record is left untouched.
C18_PrunerResult ==
    (pr_pc = "done") =>
        /\ (pr_in.kind = "det") =>
              IF Len(pr_in.annotation) = 0 THEN ~pr_out.annotated ELSE pr_out = pr_in
        /\ (pr_in.kind = "seg") =>
              LET kept == {label \in DOMAIN pr_in.layers : ~AllZero(pr_in.layers[label])}
              IN /\ DOMAIN pr_out.layers = kept
                 /\ \A label \in kept : pr_out.layers[label] = pr_in.layers[label]
                 /\ pr_out.annotated <=> (kept # {})
        /\ (pr_in.kind = "cls") => pr_out = pr_in

\* a segmentation record that loses one layer and keeps another, which holds
\* background pixels too
C18_Witness ==
    /\ pr_pc = "done"
    /\ pr_in.kind = "seg"
    /\ \E l1, l2 \in DOMAIN pr_in.layers :
          /\ l1 \notin DOMAIN pr_out.layers
          /\ l2 \in DOMAIN pr_out.layers
          /\ 0 \in Unique(pr_in.layers[l2])

----------------------------------------------------------------------------
(* Claims about the extent of the regions of generate() *)

\* C19: every region generate() returns, in grid or size mode and whatever
\* the margins, overlaps, fixed_size and partial, has width > 0 and
\* height > 0.
C19_RegionInvariant ==
    (gen_pc = "generated") =>
        \A k \in DOMAIN regions : regions[k].w > 0 /\ regions[k].h > 0

FixedGridCase ==
    /\ gen_pc = "generated"
    /\ GenMode(params) = "grid"
    /\ params.fixed_size

\* row and column of the region at position k of a grid result
RowOf(k) == (k - 1) \div params.num_cols

ColOf(k) == (k - 1) % params.num_cols

\* C20 as stated: grid mode with fixed_size: all regions have the same width
\* and the same height, whatever the overlaps, and no region extends past
\* the section.
C20_FixedSizeUniform ==
    FixedGridCase =>
        /\ \A j, k \in DOMAIN regions :
              regions[j].w = regions[k].w /\ regions[j].h = regions[k].h
        /\ \A k \in DOMAIN regions :
              /\ regions[k].x + regions[k].w <= margin_left(params) + section_width(params)
              /\ regions[k].y + regions[k].h <= margin_top(params) + section_height(params)

\* C20: grid mode with fixed_size: all regions have the same width and the
\* same height apart from the overlap, which every column but the last adds
\* to its width and every row but the last to its height; less that overlap
\* no column or row reaches past the start of the next one, and the last
\* column and row do not extend past the section.
C20_FixedSizeUniformButOverlap ==
    FixedGridCase =>
        \A k \in DOMAIN regions :
            LET lastCol == ColOf(k) = params.num_cols - 1
                lastRow == RowOf(k) = params.num_rows - 1
                w0 == regions[k].w - (IF lastCol THEN 0 ELSE params.overlap_right)
                h0 == regions[k].h - (IF lastRow THEN 0 ELSE params.overlap_bottom)
            IN /\ \A j \in DOMAIN regions :
                     /\ w0 = regions[j].w
                           - (IF ColOf(j) = params.num_cols - 1 THEN 0 ELSE params.overlap_right)
                     /\ h0 = regions[j].h
                           - (IF RowOf(j) = params.num_rows - 1 THEN 0 ELSE params.overlap_bottom)
               /\ IF lastCol
                  THEN regions[k].x + w0 <= margin_left(params) + section_width(params)
                  ELSE regions[k].x + w0 <= regions[k + 1].x
               /\ IF lastRow
                  THEN regions[k].y + h0 <= margin_top(params) + section_height(params)
                  ELSE regions[k].y + h0 <= regions[k + params.num_cols].y

\* a fixed_size grid of several columns with an overlap and a section width
\* the number of columns does not divide
C20_Witness ==
    /\ FixedGridCase
    /\ params.num_cols > 1
    /\ params.overlap_right > 0
    /\ section_width(params) > params.num_cols
    /\ section_width(params) % params.num_cols # 0
    /\ section_height(params) > 0

----------------------------------------------------------------------------
(* Claims about size mode and about the margins *)

SizeCase == gen_pc = "generated" /\ GenMode(params) = "size"

\* the positions the two loops of size mode visit: the first one always,
\* the following ones as long as they start inside the image
Visited(first, step, limit) ==
    {first} \cup {first + i * step : i \in {i \in 1..limit : first + i * step <= limit - 1}}

\* the extent of a tile at 'start' that the claim asks for: the nominal one
\* if it ends inside the image, else the rest up to the edge or nothing
ExtentAsked(start, nominal, limit, partial) ==
    IF start + nominal <= limit THEN nominal
    ELSE IF partial THEN limit - start ELSE 0

RegionsAsked ==
    {Region(x, y,
            ExtentAsked(x, params.col_width + params.overlap_right, params.width, params.partial),
            ExtentAsked(y, params.row_height + params.overlap_bottom, params.height, params.partial)) :
        x \in Visited(margin_left(params), params.col_width, params.width),
        y \in Visited(margin_top(params), params.row_height, params.height)}

\* C21: size mode emits a region of the nominal size (col_width +
\* overlap_right) x (row_height + overlap_bottom) only where that rectangle
\* lies inside the image; where it does not, no region is emitted without
\* partial and one cut off exactly at the image edge with partial.
C21_SizeTrailingTiles ==
    SizeCase =>
        {regions[k] : k \in DOMAIN regions} = {r \in RegionsAsked : r.w > 0 /\ r.h > 0}

\* C22: with both overlaps 0, in grid and in size mode every region lies
\* inside the section the margins leave: margin_left <= x, margin_top <= y,
\* x + w <= W - margin_right and y + h <= H - margin_bottom, a uniform margin
\* standing in for every side left at 0.
C22_MarginsBoundRegions ==
    (/\ gen_pc = "generated"
     /\ params.overlap_right = 0
     /\ params.overlap_bottom = 0) =>
        \A k \in DOMAIN regions :
            /\ margin_left(params) <= regions[k].x
            /\ margin_top(params) <= regions[k].y
            /\ regions[k].x + regions[k].w <= params.width - margin_right(params)
            /\ regions[k].y + regions[k].h <= params.height - margin_bottom(params)

----------------------------------------------------------------------------
(* process_image: the pixels of one tile *)

\* pad_image with its optional arguments: a size that is None is taken from
\* the image
pad_image_opt(img, pad_width, pad_height) ==
    IF pad_width # NoneVal /\ pad_height # NoneVal THEN pad_image(img, pad_width, pad_height)
    ELSE IF pad_width # NoneVal THEN pad_image(img, pad_width, img.height)
    ELSE IF pad_height # NoneVal THEN pad_image(img, img.width, pad_height)
    ELSE img

\* pil.crop((x0, y0, x1 + 1, y1 + 1)) after x1, y1 were clamped to the image
CropImage(img, xyxy) ==
    LET dims == OrigDims(xyxy, img.width, img.height)
    IN [width |-> dims[1], height |-> dims[2],
        px |-> [p \in Pixels(dims[1], dims[2]) |-> img.px[<<p[1] + xyxy[1], p[2] + xyxy[2]>>]]]

\* orig_dims and the image of the tile of one region
TileOf(img, region, pad_width, pad_height) ==
    LET sub_image == CropImage(img, regions_xyxy(<<region>>)[1])
    IN [orig_dims |-> <<sub_image.width, sub_image.height>>,
        image |-> pad_image_opt(sub_image, pad_width, pad_height)]

\* an image of SegWidth x SegHeight pixels, no two alike and none blank
TileImage ==
    [width |-> SegWidth, height |-> SegHeight,
     px |-> [p \in Pixels(SegWidth, SegHeight) |-> 1 + p[1] + SegWidth * p[2]]]

\* regions that start inside the image and end inside it or past its edge
TileRegions ==
    {LocatedObject(x, y, w, h) :
        x \in 0..(SegWidth - 1), y \in 0..(SegHeight - 1),
        w \in 1..(SegWidth + 1), h \in 1..(SegHeight + 1)}

TileInit ==
    /\ tile_in \in [image : {TileImage}, region : TileRegions,
                    pad_width : {NoneVal} \cup (1..(SegWidth + 1)),
                    pad_height : {NoneVal} \cup (1..(SegHeight + 1))]
    /\ tile_out = <<>>
    /\ tile_pc = "call"
    /\ GenIdle
    /\ MetaIdle
    /\ MergeIdle
    /\ XferIdle
    /\ ExIdle
    /\ PruneIdle
    /\ MixIdle

Tile ==
    /\ tile_pc = "call"
    /\ tile_out' = TileOf(tile_in.image, tile_in.region, tile_in.pad_width, tile_in.pad_height)
    /\ tile_pc' = "done"
    /\ UNCHANGED <<tile_in, genVars, metaVars, mergeVars, xferVars, exVars, pruneVars, mixVars>>

TileNext == Tile

SpecTile == TileInit /\ [][TileNext]_vars

----------------------------------------------------------------------------
(* Claims about the pixels of a tile *)

\* the size of the region clamped to the image
ClampedSize(img, region) ==
    <<Min(region.x + region.width, img.width) - region.x,
      Min(region.y + region.height, img.height) - region.y>>

\* the extent the tile image is to have: the pad size where one is given and
\* larger than the crop, else that of the crop
PaddedExtent(crop, pad) == IF pad # NoneVal /\ pad > crop THEN pad ELSE crop

\* C23: process_image crops the region clamped to the image, carries exactly
\* that size as orig_dims, and the tile image is never smaller than the crop:
\* it is the crop where no pad size is given or the pad size is not larger,
\* else it has the pad size, with the crop in the top left corner and blank
\* pixels to the right and below.
C23_TilePixels ==
    (tile_pc = "done") =>
        LET size == ClampedSize(tile_in.image, tile_in.region)
            w == PaddedExtent(size[1], tile_in.pad_width)
            h == PaddedExtent(size[2], tile_in.pad_height)
        IN /\ tile_out.orig_dims = size
           /\ tile_out.image.width = w
           /\ tile_out.image.height = h
           /\ DOMAIN tile_out.image.px = Pixels(w, h)
           /\ \A p \in DOMAIN tile_out.image.px :
                 tile_out.image.px[p] =
                     IF p[1] < size[1] /\ p[2] < size[2]
                     THEN tile_in.image.px[<<p[1] + tile_in.region.x, p[2] + tile_in.region.y>>]
                     ELSE 0

----------------------------------------------------------------------------
(* transfer_region with a full record and a sub-record of different kinds *)

\* the value of an annotation attribute: None, a string (classification), a
\* list of objects (detection) or a set of layers (segmentation)
NoneAnn == [type |-> "none", str |-> <<>>, objs |-> <<>>, layers |-> <<>>]

StrAnn(str) == [NoneAnn EXCEPT !.type = "str", !.str = str]

ObjsAnn(objs) == [NoneAnn EXCEPT !.type = "objs", !.objs = objs]

LayersAnn(layers) == [NoneAnn EXCEPT !.type = "layers", !.layers = layers]

\* what a call does: it returns or raises, and leaves the full record with
\* an annotation
Returns(annotation) == [raised |-> FALSE, annotation |-> annotation]

Raises(annotation) == [raised |-> TRUE, annotation |-> annotation]

\* transfer_region for a sub-record with an annotation that is not of the
\* kind of the full record: the branch is chosen by the type of the full
\* record alone
transfer_region_mixed(full, sub) ==
    CASE full.kind = "cls" ->
            \* None: the sub-record's annotation is assigned; else it is not
            \* among the labels, is appended, and join() raises TypeError
            IF full.annotation.type = "none" THEN Returns(sub.annotation)
            ELSE Raises(full.annotation)
      [] full.kind = "det" ->
            \* the loop runs over the characters of a string (no attribute
            \* x) or over an annotation object that cannot be iterated
            IF sub.annotation.type = "str" /\ sub.annotation.str = <<>>
            THEN Returns(full.annotation)
            ELSE Raises(full.annotation)
      [] full.kind = "seg" ->
            \* a string or a list has no attribute layers
            Raises(full.annotation)

MixLayers == [{"a"} -> SubLayers(SegWidth, SegHeight)]

MixAnnotations(kind) ==
    CASE kind = "cls" -> {StrAnn(<<>>), StrAnn(<<"a">>), StrAnn(<<"b">>), StrAnn(<<"a", ",", "b">>)}
      [] kind = "det" -> {ObjsAnn(objs) : objs \in SubObjects}
      [] kind = "seg" -> {LayersAnn(layers) : layers \in MixLayers}

Kinds == {"cls", "det", "seg"}

\* the full record: as new_from_template made it, or after transfers of its
\* own kind
MixFull ==
    {[kind |-> "cls", annotation |-> NoneAnn]}
    \cup UNION {{[kind |-> kind, annotation |-> ann] : ann \in MixAnnotations(kind)} :
                  kind \in Kinds}

\* the sub-records with an annotation
MixSub ==
    UNION {{[kind |-> kind, annotation |-> ann] : ann \in MixAnnotations(kind)} :
             kind \in Kinds}

MixInit ==
    /\ mix_full \in MixFull
    /\ mix_sub \in {sub \in MixSub : sub.kind # mix_full.kind}
    /\ mix_out = <<>>
    /\ mix_pc = "call"
    /\ GenIdle
    /\ MetaIdle
    /\ MergeIdle
    /\ XferIdle
    /\ ExIdle
    /\ PruneIdle
    /\ TileIdle

TransferMixed ==
    /\ mix_pc = "call"
    /\ mix_out' = transfer_region_mixed(mix_full, mix_sub)
    /\ mix_pc' = "done"
    /\ UNCHANGED <<mix_full, mix_sub, genVars, metaVars, mergeVars, xferVars, exVars,
                   pruneVars, tileVars>>

MixNext == TransferMixed

SpecMix == MixInit /\ [][MixNext]_vars

\* C24: a transfer_region call with a full record and a sub-record of
\* different kinds raises an error and leaves the annotation of the full
\* record as it was.
C24_MismatchIsFatal ==
    (mix_pc = "done") =>
        /\ mix_out.raised
        /\ mix_out.annotation = mix_full.annotation

----------------------------------------------------------------------------
(* Claims about the order of the steps of MetaSubImages *)

\* the base filter was invoked on the tile at position k
Filtered(k) == \E i \in DOMAIN filter_calls : filter_calls[i] = k

\* transfer_region was called for the tile at position k
Transferred(k) == \E j \in DOMAIN transfers : transfers[j].pos = k

\* C25 as stated: every invocation of the base filter happens before the
\* first transfer_region call into the full record.
C25_FilterBeforeReassembly ==
    (transfers # <<>>) => \A k \in DOMAIN sub_items : Filtered(k)

\* C25: the base filter is invoked on a tile before the transfer_region call
\* for that tile, and a tile is transferred, or skipped because the filter
\* returned a list for it, before the base filter is invoked on the next one.
C25_FilterBeforeOwnTransfer ==
    /\ \A j \in DOMAIN transfers : Filtered(transfers[j].pos)
    /\ \A i \in 1..(Len(filter_calls) - 1) :
          Transferred(filter_calls[i]) \/ filter_calls[i] \in list_tiles

\* the base filter has just returned for the second tile, the first one
\* being transferred already
C25_Witness ==
    /\ meta_pc = "transfer"
    /\ Len(filter_calls) = 2
    /\ Len(transfers) = 1
    /\ Len(sub_items) > 2

\* the positions of _do_process after the loop over the tiles
AfterLoop == {"prune", "merge", "emit", "done", "error"}

\* what holds at every position: the base filter is called once per tile in
\* the order of the list, the loop is over before prune_annotations, merging
\* needs the option, and the method does not fail but returns one record
StageOrder ==
    /\ \A i \in DOMAIN filter_calls : filter_calls[i] = i
    /\ (meta_pc \in AfterLoop) => Len(filter_calls) = Len(sub_items)
    /\ (meta_pc = "merge") => meta_cfg.merge_adjacent_polygons
    /\ meta_pc # "error"
    /\ Len(result) = (IF meta_pc = "done" THEN 1 ELSE 0)

\* what holds of every step: the tiles are there before the first filter
\* call and stay as they are, no transfer follows prune_annotations, which
\* runs once, and merge_polygons is entered from prune_annotations only
StageStep ==
    /\ (filter_calls' # filter_calls) => (meta_pc # "start" /\ sub_items' = sub_items)
    /\ (transfers' # transfers) => meta_pc \notin AfterLoop
    /\ (meta_pc \in AfterLoop \ {"prune"}) => meta_pc' \in AfterLoop \ {"prune"}
    /\ (meta_pc' = "merge") => meta_pc = "prune"

\* C26: per input record the regions and tiles are extracted before the first
\* base-filter call, the base filter is called exactly once per tile in the
\* order of the region list, prune_annotations runs once and after the last
\* transfer, merge_polygons runs only after it and only with merging enabled,
\* and exactly one record is emitted.
C26_PipelineStageOrder == []StageOrder /\ [][StageStep]_vars

\* C29: for a Detection record to which no tile contributes an object the
\* pipeline with merging enabled (new_from_template, transfers,
\* prune_annotations, merge_polygons) ends without error and emits the record
\* without annotation, and prune_annotations applied once more to the pruned
\* record changes nothing and does not fail.
C29_PruneThenMergeOnEmpty ==
    (/\ meta_cfg.merge_adjacent_polygons
     /\ meta_pc \in AfterLoop \ {"prune"}
     /\ Len(new_item.annotation) = 0) =>
        /\ meta_pc # "error"
        /\ (meta_pc = "done") => (Len(result) = 1 /\ ~result[1].annotated)
        /\ ~PruneFails(new_item)
        /\ prune_annotations(new_item) = new_item

----------------------------------------------------------------------------
(* Claims about the reassembled detection objects *)

\* the object lies inside an image of w x h pixels
InsideImage(o, w, h) ==
    /\ 0 <= o.x /\ o.x < w /\ o.x + o.width <= w
    /\ 0 <= o.y /\ o.y < h /\ o.y + o.height <= h

\* the number of objects of the sub-record of a pair whose origin, moved by
\* the offset of the region, is inside the image
OriginsInside(pr) ==
    Cardinality({i \in DOMAIN pr.objs :
                    /\ pr.objs[i].x + pr.region.x < SegWidth
                    /\ pr.objs[i].y + pr.region.y < SegHeight})

RECURSIVE OriginsInsideSum(_, _)
OriginsInsideSum(order, n) ==
    IF n = 0 THEN 0
    ELSE OriginsInsideSum(order, n - 1) + OriginsInside(pairs[order[n]])

\* C27: after any sequence of transfer_region calls with sub-objects at
\* non-negative coordinates every object of the full Detection record lies
\* inside the image, no object is appended whose translated origin is at or
\* beyond the right or bottom edge, and an object cut at an edge gains no
\* region_index.
C27_ObjectsInsideImage ==
    /\ \A i \in DOMAIN det_full.annotation :
          /\ InsideImage(det_full.annotation[i], SegWidth, SegHeight)
          /\ det_full.annotation[i].region_index = NoneVal
    /\ Len(det_full.annotation) <= OriginsInsideSum(call_order, Len(call_order))

----------------------------------------------------------------------------
(* Claims about the region string *)

\* the region objects and xyxy tuples the parser has to return for a list
RegionObjects(rs) ==
    [k \in DOMAIN rs |-> LocatedObject(rs[k].x, rs[k].y, rs[k].w, rs[k].h)]

RegionCorners(rs) ==
    [k \in DOMAIN rs |->
        <<rs[k].x, rs[k].y, rs[k].x + rs[k].w - 1, rs[k].y + rs[k].h - 1>>]

\* C28: for every region list produced by generate(), the empty list of size
\* mode included, parsing the split region string with sorting "none"
\* succeeds and returns the regions in the same order, the i-th xyxy tuple
\* being (x, y, x+w-1, y+h-1) of the i-th region, both lists of equal length.
C28_RegionStringRoundTrip ==
    gen_pc = "generated" =>
        LET tokens == StrSplit(regions_to_string(regions)) IN
        /\ ~ParseFails(tokens)
        /\ parse_regions(tokens) = RegionObjects(regions)
        /\ regions_xyxy(parse_regions(tokens)) = RegionCorners(regions)
        /\ Len(parse_regions(tokens)) = Len(regions_xyxy(parse_regions(tokens)))

----------------------------------------------------------------------------
(* Claims about the two extractors *)

\* what a tile of process_image shows: its number, the size of its image
\* (no padding: the size of the crop), its objects, the sizes of its layers
SharedView(it, sub) ==
    [index |-> sub.index, size |-> sub.orig_dims,
     annotation |-> IF it.kind = "det" THEN sub.annotation ELSE <<>>,
     layers |-> IF it.kind = "seg"
                THEN [l \in DOMAIN sub.layers |-> <<sub.layers[l].width, sub.layers[l].height>>]
                ELSE <<>>]

\* the same of a tile of the SubImages filter
FilterView(it, tile) ==
    [index |-> tile.index, size |-> tile.size,
     annotation |-> IF it.kind = "det" THEN tile.annotation ELSE <<>>,
     layers |-> IF it.kind = "seg"
                THEN [l \in DOMAIN tile.layers |-> <<tile.layers[l].width, tile.layers[l].height>>]
                ELSE <<>>]

\* C30: for the same record, region list and flags, without padding, the
\* SubImages filter and process_image emit the same tiles: same number and
\* order, same image size (the region's, clamped to the image), same sizes
\* of the cropped layers, same fitted objects.
C30_ExtractorsAgree ==
    (ex_pc = "done" /\ sub_pc # "call") =>
        /\ sub_pc = "done"
        /\ Len(ex_tiles) = Len(ex_subs)
        /\ \A k \in DOMAIN ex_tiles :
              FilterView(ex_item, ex_tiles[k]) = SharedView(ex_item, ex_subs[k])

=============================================================================
